---- MODULE Spec2Model ----
(***************************************************************************)
(* The bulk upstream fan-out of the bill lookup service.                   *)
(*                                                                         *)
(* Three handlers of the repository implement the same pipeline:           *)
(*   "bulk"        netlify/functions/api/check-electricity/bulk.js         *)
(*                 (chunk loop, Promise.all per chunk)                     *)
(*   "getBills"    netlify/functions/get-bills.ts (p-limit)                *)
(*   "getBillsJs"  the compiled get-bills.js kept in                       *)
(*                 dist/netlify/functions/kho-list.d.ts (p-limit, with the *)
(*                 status-400 remapping)                                   *)
(* The handler that serves the request is part of the state (env.handler). *)
(*                                                                         *)
(* A string is the sequence of its characters; a literal of the source     *)
(* that is never cut is written as one element, e.g. <<"Upstream ">>.      *)
(***************************************************************************)
EXTENDS Integers, Sequences, FiniteSets, TLC

\* ------------------------------------------------------------------ bounds
\* longest identifier list of a request body
MaxAccounts == 2
\* largest NEW_API_MAX_RETRIES of specification Spec
MaxRetries == 1
\* largest NEW_API_CONCURRENCY
MaxConcurrency == 2
\* largest NEW_API_MAX_RETRIES of specification SpecRetry (one account)
DeepRetries == 6
\* the history entries a run may hold, and the keys or bills one request may name
MaxHistory == 3
MaxKeys == 2
\* the instants the clock of the server shows when it is read
MaxClock == 2

\* ------------------------------------------------------- program constants
BackoffBase == 700
BackoffCap == 10000
JitterRange == 200
PreviewLimit == 1000
MessageLimit == 400
\* err.status of an error that carries none (undefined is falsy, as is 0)
NoStatus == 0

\* ----------------------------------------------------------------- strings
Min(a, b) == IF a <= b THEN a ELSE b
Max(a, b) == IF a >= b THEN a ELSE b

RECURSIVE Pow2(_)
Pow2(n) == IF n <= 0 THEN 1 ELSE 2 * Pow2(n - 1)

\* String.prototype.slice(0, n)
Slice(s, n) == SubSeq(s, 1, Min(Len(s), n))

RECURSIVE TrimStart(_)
TrimStart(s) ==
    IF s # <<>> /\ Head(s) = " " THEN TrimStart(Tail(s)) ELSE s

RECURSIVE TrimEnd(_)
TrimEnd(s) ==
    IF s # <<>> /\ s[Len(s)] = " " THEN TrimEnd(SubSeq(s, 1, Len(s) - 1)) ELSE s

\* String(v) without .trim(): padding and blank strings are kept
TrimNone(s) == s

\* String.prototype.trim
Trim(s) == TrimEnd(TrimStart(s))

DigitChar(d) ==
    CASE d = 0 -> "0" [] d = 1 -> "1" [] d = 2 -> "2" [] d = 3 -> "3"
      [] d = 4 -> "4" [] d = 5 -> "5" [] d = 6 -> "6" [] d = 7 -> "7"
      [] d = 8 -> "8" [] d = 9 -> "9"

RECURSIVE NatToString(_)
NatToString(n) ==
    IF n < 10 THEN <<DigitChar(n)>>
    ELSE NatToString(n \div 10) \o <<DigitChar(n % 10)>>

\* String(n) of an integer
NumberToString(n) == IF n < 0 THEN <<"-">> \o NatToString(0 - n) ELSE NatToString(n)

\* Array.prototype.filter(Boolean) over strings: the empty string is falsy
RECURSIVE FilterBoolean(_)
FilterBoolean(list) ==
    IF list = <<>> THEN <<>>
    ELSE IF Head(list) = <<>> THEN FilterBoolean(Tail(list))
    ELSE <<Head(list)>> \o FilterBoolean(Tail(list))

MapTrim(list) == [i \in 1..Len(list) |-> Trim(list[i])]

\* ------------------------------------------------------------ JSON values
\* A JavaScript value read from a bill line item: t is its typeof ("undefined",
\* "null", "number", "string"), n the number, s the string.
Undefined == [t |-> "undefined", n |-> 0, s |-> <<>>]
Null == [t |-> "null", n |-> 0, s |-> <<>>]
Num(n) == [t |-> "number", n |-> n, s |-> <<>>]
Str(s) == [t |-> "string", n |-> 0, s |-> s]

\* a ?? b
Coalesce(a, b) == IF a.t \in {"undefined", "null"} THEN b ELSE a

IsDigit(c) == c \in {"0", "1", "2", "3", "4", "5", "6", "7", "8", "9"}

DigitValue(c) ==
    CASE c = "0" -> 0 [] c = "1" -> 1 [] c = "2" -> 2 [] c = "3" -> 3
      [] c = "4" -> 4 [] c = "5" -> 5 [] c = "6" -> 6 [] c = "7" -> 7
      [] c = "8" -> 8 [] c = "9" -> 9

RECURSIVE DigitsToNat(_)
DigitsToNat(s) ==
    IF s = <<>> THEN 0
    ELSE 10 * DigitsToNat(SubSeq(s, 1, Len(s) - 1)) + DigitValue(s[Len(s)])

AllDigits(s) == s # <<>> /\ \A k \in 1..Len(s) : IsDigit(s[k])

\* Number(v) on the values above; finite |-> FALSE stands for NaN.
\* Number(undefined) is NaN, Number(null) is 0, Number("") is 0, Number("12")
\* is 12, Number("-12") is -12, Number("abc") is NaN.
ToNumber(v) ==
    CASE v.t = "number" -> [finite |-> TRUE, n |-> v.n]
      [] v.t = "null" -> [finite |-> TRUE, n |-> 0]
      [] v.t = "undefined" -> [finite |-> FALSE, n |-> 0]
      [] v.t = "string" ->
            LET u == Trim(v.s) IN
            IF u = <<>> THEN [finite |-> TRUE, n |-> 0]
            ELSE IF AllDigits(u) THEN [finite |-> TRUE, n |-> DigitsToNat(u)]
            ELSE IF Head(u) = "-" /\ AllDigits(Tail(u))
                 THEN [finite |-> TRUE, n |-> 0 - DigitsToNat(Tail(u))]
            ELSE [finite |-> FALSE, n |-> 0]

\* return Number.isFinite(n) ? n : -1: a sentinel instead of 0
safeNumberSentinel(v) == LET n == ToNumber(v) IN IF n.finite THEN n.n ELSE 0 - 1

\* const n = Number(v); return Number.isFinite(n) ? n : 0
safeNumber(v) == LET n == ToNumber(v) IN IF n.finite THEN n.n ELSE 0

\* One element of data.data.bills.
BillItem(moneyAmount, money_amount, amount, customerName, address, month) ==
    [moneyAmount |-> moneyAmount, money_amount |-> money_amount, amount |-> amount,
     customerName |-> customerName, customer_name |-> <<>>,
     address |-> address, month |-> month]

\* The value of data.parsed_response_text: absent, a string, or an object with
\* error.message, message and its JSON.stringify text.
NoParsed == [t |-> "undefined", s |-> <<>>, errorMessage |-> <<>>, message |-> <<>>]
ParsedString(s) == [t |-> "string", s |-> s, errorMessage |-> <<>>, message |-> <<>>]
ParsedObject(text, errorMessage, message) ==
    [t |-> "object", s |-> text, errorMessage |-> errorMessage, message |-> message]

\* An upstream payload: { success, error, data: { success, status_code,
\* response_text, data: { bills } } }.  hasData is FALSE when data is absent,
\* status_code 0 and the empty strings stand for absent (falsy) fields.
Payload(success, error, hasData, dataSuccess, status_code, response_text, bills) ==
    [success |-> success, error |-> error, hasData |-> hasData,
     data |-> [success |-> dataSuccess, status_code |-> status_code,
               response_text |-> response_text,
               parsed_response_text |-> NoParsed, bills |-> bills]]

EmptyObject == Payload(FALSE, <<>>, FALSE, FALSE, 0, <<>>, <<>>)

\* ---------------------------------------------------- upstream body texts
TextBill == <<"{success:true,data:{success:true,data:{bills:[{moneyAmount:50000,customerName:'N',address:'S'}]}}}">>
TextInner400 == <<"{data:{status_code:400}}">>
TextInner400Msg == <<"{data:{status_code:400,response_text:'{message:no debt}'}}">>
TextHtml == <<"<", "h", "t", "m", "l", ">">>
TextMessage == <<"{message:no debt}">>

PayBill ==
    Payload(TRUE, <<>>, TRUE, TRUE, 0, <<>>,
            <<BillItem(Num(50000), Undefined, Undefined, <<"N">>, <<"S">>, <<>>)>>)
PayInner400 == Payload(FALSE, <<>>, TRUE, FALSE, 400, <<>>, <<>>)
PayInner400Msg == Payload(FALSE, <<>>, TRUE, FALSE, 400, TextMessage, <<>>)

\* Bodies that are JSON but not the payload the handler expects: null, a bare
\* number, an object without data, a bills list whose first entry is null or a
\* number, a response_text that is not JSON.
TextNull == <<"n", "u", "l", "l">>
TextNumber == <<"7">>
TextSuccessOnly == <<"{success:true}">>
TextNoBills == <<"{success:true,data:{success:true}}">>
TextBillsNull == <<"{success:true,data:{success:true,data:{bills:[null]}}}">>
TextBillsNumber == <<"{success:true,data:{success:true,data:{bills:[7]}}}">>
TextBadResponseText == <<"{data:{response_text:'<html>'}}">>

PaySuccessOnly == Payload(TRUE, <<>>, FALSE, FALSE, 0, <<>>, <<>>)
PayNoBills == Payload(TRUE, <<>>, TRUE, TRUE, 0, <<>>, <<>>)
PayBillsNull == Payload(TRUE, <<>>, TRUE, TRUE, 0, <<>>, <<Null>>)
PayBillsNumber == Payload(TRUE, <<>>, TRUE, TRUE, 0, <<>>, <<Num(7)>>)
PayBadResponseText == Payload(FALSE, <<>>, TRUE, FALSE, 0, TextHtml, <<>>)

\* The amounts a line item may carry in moneyAmount, money_amount and amount:
\* absent, null, a number, a negative number, a numeric and a non-numeric string.
AmountValues ==
    { Undefined, Null, Num(50000), Num(0 - 5), Str(<<"1", "2">>), Str(<<"a", "b", "c">>) }

\* The JSON text of an amount (an absent field has none).
EncodeValue(v) ==
    CASE v.t = "null" -> <<"n", "u", "l", "l">>
      [] v.t = "number" -> NumberToString(v.n)
      [] v.t = "string" -> <<"'">> \o v.s \o <<"'">>
      [] v.t = "undefined" -> <<>>

BillOpen == "{success:true,data:{success:true,data:{bills:[{customerName:'N',address:'S',"
BillClose == "}]}}}"

Field(k, v) == IF v.t = "undefined" THEN <<>> ELSE <<k>> \o EncodeValue(v) \o <<",">>

\* The body text of a payload with one line item carrying the three amounts.
BillText(moneyAmount, money_amount, amount) ==
    <<BillOpen>> \o Field("moneyAmount:", moneyAmount)
                \o Field("money_amount:", money_amount)
                \o Field("amount:", amount) \o <<BillClose>>

\* The tokens of field k of a line item text: from its key to the next comma.
FieldTokens(text, k) ==
    LET keys == {q \in 1..Len(text) : text[q] = k} IN
    IF keys = {} THEN <<>>
    ELSE LET q == CHOOSE x \in keys : \A y \in keys : x <= y
             ends == {e \in (q + 1)..Len(text) : text[e] = ","}
             e == CHOOSE x \in ends : \A y \in ends : x <= y
         IN  SubSeq(text, q + 1, e - 1)

\* The value a JSON token sequence denotes; no tokens is an absent field.
DecodeValue(tokens) ==
    IF tokens = <<>> THEN Undefined
    ELSE IF tokens = <<"n", "u", "l", "l">> THEN Null
    ELSE IF Head(tokens) = "'" THEN Str(SubSeq(tokens, 2, Len(tokens) - 1))
    ELSE IF Head(tokens) = "-" THEN Num(0 - DigitsToNat(Tail(tokens)))
    ELSE Num(DigitsToNat(tokens))

IsBillText(text) == Len(text) >= 2 /\ text[1] = BillOpen /\ text[Len(text)] = BillClose

ParseBillText(text) ==
    Payload(TRUE, <<>>, TRUE, TRUE, 0, <<>>,
            <<BillItem(DecodeValue(FieldTokens(text, "moneyAmount:")),
                       DecodeValue(FieldTokens(text, "money_amount:")),
                       DecodeValue(FieldTokens(text, "amount:")),
                       <<"N">>, <<"S">>, <<>>)>>)

\* Texts a data.response_text may hold: a JSON object with error.message and
\* message, a JSON object with neither, and a text longer than the 400
\* characters the normalizer keeps of it.
TextErrorMessage == <<"{error:{message:bad},message:no debt}">>
TextInnerPlain == <<"{code:1}">>
LongText == [k \in 1..(MessageLimit + 1) |-> "x"]

ResponseTexts == { <<>>, TextMessage, TextErrorMessage, TextInnerPlain, TextHtml, LongText }

\* The JSON text of one line item with an amount, as the last member of data.
BillsMember == "data:{bills:[{moneyAmount:50000,customerName:'N',address:'S'}]}"

\* The body text of a payload carrying any of: the two success flags, a
\* top-level error string, data.status_code, data.response_text, one line item.
PayloadText(success, error, dataSuccess, status_code, response_text, hasBills) ==
    <<"{">>
    \o (IF success THEN <<"success:true,">> ELSE <<>>)
    \o (IF error # <<>> THEN <<"error:'">> \o error \o <<"',">> ELSE <<>>)
    \o <<"data:{">>
    \o (IF dataSuccess THEN <<"data.success:true,">> ELSE <<>>)
    \o (IF status_code # 0
        THEN <<"status_code:">> \o NumberToString(status_code) \o <<",">> ELSE <<>>)
    \o (IF response_text # <<>>
        THEN <<"response_text:'">> \o response_text \o <<"',">> ELSE <<>>)
    \o (IF hasBills THEN <<BillsMember>> ELSE <<>>)
    \o <<"}}">>

\* The tokens of text after the first token open up to the next token close;
\* none when open does not occur.
Between(text, open, close) ==
    LET opens == {q \in 1..Len(text) : text[q] = open} IN
    IF opens = {} THEN <<>>
    ELSE LET q == CHOOSE x \in opens : \A y \in opens : x <= y
             ends == {e \in (q + 1)..Len(text) : text[e] = close}
             e == CHOOSE x \in ends : \A y \in ends : x <= y
         IN  SubSeq(text, q + 1, e - 1)

HasToken(text, token) == \E q \in 1..Len(text) : text[q] = token

IsPayloadText(text) == Len(text) >= 3 /\ text[1] = "{" /\ text[Len(text)] = "}}"

ParsePayloadText(text) ==
    Payload(HasToken(text, "success:true,"),
            Between(text, "error:'", "',"),
            TRUE,
            HasToken(text, "data.success:true,"),
            IF HasToken(text, "status_code:")
            THEN DigitsToNat(Between(text, "status_code:", ",")) ELSE 0,
            Between(text, "response_text:'", "',"),
            IF HasToken(text, BillsMember)
            THEN <<BillItem(Num(50000), Undefined, Undefined, <<"N">>, <<"S">>, <<>>)>>
            ELSE <<>>)

\* JSON.parse(text) of an upstream body: ok |-> FALSE is a SyntaxError
JsonParse(text) ==
    CASE text = <<"{}">> -> [ok |-> TRUE, value |-> EmptyObject]
      [] text = TextBill -> [ok |-> TRUE, value |-> PayBill]
      [] text = TextInner400 -> [ok |-> TRUE, value |-> PayInner400]
      [] text = TextInner400Msg -> [ok |-> TRUE, value |-> PayInner400Msg]
      [] text = TextNull -> [ok |-> TRUE, value |-> Null]
      [] text = TextNumber -> [ok |-> TRUE, value |-> Num(7)]
      [] text = TextSuccessOnly -> [ok |-> TRUE, value |-> PaySuccessOnly]
      [] text = TextNoBills -> [ok |-> TRUE, value |-> PayNoBills]
      [] text = TextBillsNull -> [ok |-> TRUE, value |-> PayBillsNull]
      [] text = TextBillsNumber -> [ok |-> TRUE, value |-> PayBillsNumber]
      [] text = TextBadResponseText -> [ok |-> TRUE, value |-> PayBadResponseText]
      [] IsBillText(text) -> [ok |-> TRUE, value |-> ParseBillText(text)]
      [] IsPayloadText(text) -> [ok |-> TRUE, value |-> ParsePayloadText(text)]
      [] OTHER -> [ok |-> FALSE, value |-> EmptyObject]

\* JSON.parse(data.response_text): a JSON object text or a SyntaxError
JsonParseInner(text) ==
    CASE text = TextMessage ->
            [ok |-> TRUE, value |-> ParsedObject(text, <<>>, <<"no debt">>)]
      [] text = TextErrorMessage ->
            [ok |-> TRUE, value |-> ParsedObject(text, <<"bad">>, <<"no debt">>)]
      [] text = TextInnerPlain ->
            [ok |-> TRUE, value |-> ParsedObject(text, <<>>, <<>>)]
      [] OTHER -> [ok |-> FALSE, value |-> NoParsed]

\* --------------------------------------------------------------- handlers
Handlers == {"bulk", "getBills", "getBillsJs"}
UsesChunks(h) == h = "bulk"
UsesPLimit(h) == h \in {"getBills", "getBillsJs"}

NoDebtText == <<"Không nợ cước / không có dữ liệu">>
NoDebtShort == <<"Không nợ cước">>
ParseErrorText == <<"Lỗi parse">>

\* `${sku}::${account}`
BillKey(sku, account) == sku \o <<":", ":">> \o account

\* `(Mã ${account})`
PlaceholderName(account) == <<"(", "M", "ã", " ">> \o account \o <<")">>

\* a || b on strings: the empty string is falsy
OrElse(a, b) == IF a # <<>> THEN a ELSE b

\* A payload (or a line item) that is null or a primitive, not an object: every
\* optional read resp?.x of it is undefined.
IsJsValue(v) == "t" \in DOMAIN v

\* the fields read off a line item that is a primitive: all undefined
PrimitiveItem == BillItem(Undefined, Undefined, Undefined, <<>>, <<>>, <<>>)

\* The first statement of normalizeCheckBillResponse: it writes
\* resp.data.parsed_response_text into the payload it was given.
WithParsedResponseText(resp) ==
    IF IsJsValue(resp) THEN resp
    ELSE IF resp.hasData /\ resp.data.response_text # <<>>
    THEN LET parsed == JsonParseInner(resp.data.response_text) IN
         [resp EXCEPT !.data.parsed_response_text =
             IF parsed.ok THEN parsed.value
             ELSE ParsedString(resp.data.response_text)]
    ELSE resp

NoDebtBill(sku, account, address, raw) ==
    [key |-> BillKey(sku, account), provider_id |-> sku, account |-> account,
     name |-> PlaceholderName(account), address |-> address, month |-> <<>>,
     amount_current |-> <<"0">>, total |-> <<"0">>, amount_previous |-> <<"0">>,
     raw |-> raw]

\* The reason text of the no-success path.
ReasonOf(r) ==
    LET pr == r.data.parsed_response_text
        fromParsed ==
            IF ~r.hasData \/ pr.t = "undefined" THEN <<>>
            ELSE IF pr.t = "string" THEN Slice(pr.s, MessageLimit)
            ELSE OrElse(pr.errorMessage, OrElse(pr.message, Slice(pr.s, MessageLimit)))
        fromError == OrElse(fromParsed, r.error)
    IN  IF fromError = <<>> /\ r.hasData /\ r.data.status_code # 0
        THEN <<"Upstream status ">> \o NumberToString(r.data.status_code)
        ELSE fromError

normalizeCheckBillResponse(h, resp, account, sku) ==
    LET r == WithParsedResponseText(resp)
        bills == IF r.hasData THEN r.data.bills ELSE <<>>
        reason == ReasonOf(r)
    IN  IF IsJsValue(resp)
        THEN NoDebtBill(sku, account, NoDebtText, resp)
        ELSE IF r.success /\ r.hasData /\ r.data.success /\ Len(bills) > 0
        THEN IF bills[1] = Null
             \* bill.moneyAmount throws a TypeError: the catch of the normalizer
             THEN NoDebtBill(sku, account, ParseErrorText, r)
             ELSE LET bill == IF IsJsValue(bills[1]) THEN PrimitiveItem ELSE bills[1]
                      money == safeNumber(Coalesce(bill.moneyAmount,
                                   Coalesce(bill.money_amount,
                                            Coalesce(bill.amount, Num(0)))))
                  IN  [key |-> BillKey(sku, account), provider_id |-> sku,
                       account |-> account,
                       name |-> OrElse(bill.customerName,
                                       OrElse(bill.customer_name, <<"-">>)),
                       address |-> OrElse(bill.address, <<"-">>),
                       month |-> bill.month,
                       amount_current |-> NumberToString(money),
                       total |-> NumberToString(money),
                       amount_previous |-> <<"0">>, raw |-> r]
        ELSE IF h # "getBills" /\ r.hasData /\ r.data.status_code = 400
        THEN NoDebtBill(sku, account, OrElse(reason, NoDebtText), r)
        ELSE NoDebtBill(sku, account, OrElse(reason, NoDebtText), r)

\* ----------------------------------------------------------- upstream call
\* What one fetch() of one attempt ends in: an HTTP response (status, body
\* text), a rejected fetch (network error) or the abort of the attempt's timer.
Response(status, text) == [kind |-> "response", status |-> status, text |-> text]
NetworkError == [kind |-> "neterr", status |-> NoStatus, text |-> <<>>]
TimerAbort == [kind |-> "abort", status |-> NoStatus, text |-> <<>>]
NoOutcome == [kind |-> "none", status |-> NoStatus, text |-> <<>>]

Outcomes ==
    { Response(200, TextBill), Response(200, TextInner400), Response(200, TextHtml),
      Response(200, <<>>),
      Response(400, TextInner400), Response(404, <<>>),
      Response(429, <<>>), Response(500, TextHtml),
      NetworkError, TimerAbort }

\* r.ok
ResponseOk(status) == status >= 200 /\ status <= 299

\* err.fatal = (status === 400): other 4xx statuses are retried
IsFatalStatusOnly400(status) == status = 400

\* err.fatal = (status >= 400 && status !== 429): a 5xx is not retried
IsFatalStatusWith5xx(status) == status >= 400 /\ status # 429

\* err.fatal of a non-ok response
IsFatalStatus(status) == status >= 400 /\ status < 500 /\ status # 429

\* The error objects thrown inside attempt().  preview <<>> is an absent preview.
UpstreamError(message, status, preview, fatal) ==
    [message |-> message, status |-> status, preview |-> preview, fatal |-> fatal]

NonOkError(status, text) ==
    LET snippet == IF text # <<>> THEN Slice(text, PreviewLimit)
                   ELSE <<"Status ">> \o NumberToString(status)
    IN  UpstreamError(<<"Upstream ">> \o NumberToString(status) \o <<":", " ">> \o snippet,
                      status, snippet, IsFatalStatus(status))

NonJsonError(h, status, text) ==
    UpstreamError(IF h = "bulk" THEN <<"Upstream returned non-JSON">>
                  ELSE <<"Upstream returned non-JSON/invalid JSON">>,
                  status,
                  IF text # <<>> THEN Slice(text, PreviewLimit) ELSE <<"<empty>">>,
                  TRUE)

FetchFailedError == UpstreamError(<<"fetch failed">>, NoStatus, <<>>, FALSE)
AbortError == UpstreamError(<<"This operation was aborted">>, NoStatus, <<>>, FALSE)

\* The try block of attempt(): what it returns or throws for one outcome.
AttemptResult(h, o) ==
    CASE o.kind = "neterr" -> [threw |-> TRUE, err |-> FetchFailedError, value |-> EmptyObject]
      [] o.kind = "abort" -> [threw |-> TRUE, err |-> AbortError, value |-> EmptyObject]
      [] o.kind = "response" ->
            IF ~ResponseOk(o.status)
            THEN [threw |-> TRUE, err |-> NonOkError(o.status, o.text), value |-> EmptyObject]
            ELSE LET parsed == JsonParse(OrElse(o.text, <<"{}">>)) IN
                 IF parsed.ok
                 THEN [threw |-> FALSE, err |-> FetchFailedError, value |-> parsed.value]
                 ELSE [threw |-> TRUE, err |-> NonJsonError(h, o.status, o.text),
                       value |-> EmptyObject]

\* if (remaining < 0) throw err: one attempt too many
ExhaustedLate(remaining) == remaining < 0

\* if (remaining <= 1) throw err: the last permitted attempt is never made
ExhaustedEarly(remaining) == remaining <= 1

\* if (remaining <= 0) throw err
Exhausted(remaining) == remaining <= 0

\* Math.min(base * (NEW_API_MAX_RETRIES - remaining + 1), 10000): linear growth
BackoffLinear(maxRetries, remaining) ==
    Min(BackoffBase * (maxRetries - remaining + 1), BackoffCap)

\* base * Math.pow(2, NEW_API_MAX_RETRIES - remaining): the cap is missing
BackoffNoCap(maxRetries, remaining) == BackoffBase * Pow2(maxRetries - remaining)

\* Math.min(base * Math.pow(2, NEW_API_MAX_RETRIES - remaining), 10000)
Backoff(maxRetries, remaining) ==
    Min(BackoffBase * Pow2(maxRetries - remaining), BackoffCap)

\* Math.floor(Math.random() * 200): the draws the model takes
JitterDraws == {0, JitterRange - 1}

\* ------------------------------------------------------- the task's entry
\* (err.message.match(/Upstream (\d{3})/) || [])[1], as a number
StatusFromMessage(message) ==
    LET hits == {k \in 1..Len(message) :
                    /\ message[k] = "Upstream "
                    /\ k + 3 <= Len(message)
                    /\ \A d \in 1..3 : IsDigit(message[k + d])}
    IN  IF hits = {} THEN NoStatus
        ELSE LET k == CHOOSE x \in hits : \A y \in hits : x <= y
             IN  DigitsToNat(SubSeq(message, k + 1, k + 3))

\* const upstreamStatus = (err.message.match(/Upstream (\d{3})/) || [])[1]: the
\* status is read from the message alone and err.status is dropped
CaughtStatusFromMessage(h, err) == StatusFromMessage(err.message)

\* const upstreamStatus = err.status || 500: an error without a status is
\* reported as a 500
CaughtStatusDefault500(h, err) == IF err.status # NoStatus THEN err.status ELSE 500

\* const upstreamStatus = ... of the catch branch
CaughtStatus(h, err) ==
    IF h = "bulk" THEN err.status
    ELSE IF err.status # NoStatus THEN err.status ELSE StatusFromMessage(err.message)

\* const preview = err.preview || err.message.slice(0, 400)
CaughtPreview(err) == OrElse(err.preview, Slice(err.message, MessageLimit))

\* Whether the catch branch turns an error of this status into a no-debt bill.
RemapsStatus400(h) == h \in {"bulk", "getBillsJs"}

\* The catch branch of the per-account task.
CatchEntry(h, acc, sku, err) ==
    LET upstreamStatus == CaughtStatus(h, err)
        preview == CaughtPreview(err)
    IN  IF RemapsStatus400(h) /\ upstreamStatus = 400
        THEN [account |-> acc, ok |-> TRUE,
              normalized |-> NoDebtBill(sku, acc, OrElse(preview, NoDebtShort), Null),
              raw |-> Null]
        ELSE [account |-> acc, ok |-> FALSE,
              error |-> IF preview = <<>> THEN OrElse(err.message, <<"Upstream error">>)
                        ELSE IF h = "getBills"
                        THEN <<"Upstream ">>
                             \o (IF upstreamStatus # NoStatus
                                 THEN NumberToString(upstreamStatus) ELSE <<"error">>)
                             \o <<":", " ">> \o preview
                        ELSE preview,
              upstreamStatus |-> upstreamStatus]

\* The try branch without the status_code pre-check of bulk.js: every payload
\* goes to normalizeCheckBillResponse.
TryEntryNormalizes(h, acc, skuLocal, upstream) ==
    LET normalized == normalizeCheckBillResponse(h, upstream, acc, skuLocal)
    IN  [account |-> acc, ok |-> TRUE, normalized |-> normalized,
         raw |-> normalized.raw]

\* The try branch of the per-account task, after fetchWithTimeoutAndRetry returned.
TryEntry(h, acc, sku, upstream) ==
    IF h = "bulk" /\ ~IsJsValue(upstream) /\ upstream.hasData
                  /\ upstream.data.status_code = 400
    THEN [account |-> acc, ok |-> TRUE,
          normalized |->
              NoDebtBill(sku, acc,
                         IF upstream.data.parsed_response_text.t # "undefined"
                         THEN upstream.data.parsed_response_text.s
                         ELSE OrElse(upstream.data.response_text, NoDebtText),
                         upstream),
          raw |-> upstream]
    ELSE LET normalized == normalizeCheckBillResponse(h, upstream, acc, sku)
         IN  [account |-> acc, ok |-> TRUE, normalized |-> normalized,
              raw |-> normalized.raw]

\* The async function of one account without its catch: an error of
\* fetchWithTimeoutAndRetry rejects the task promise.
TaskBodyNoCatch(h, acc, sku, f) ==
    IF f.threw
    THEN [threw |-> TRUE, entry |-> [account |-> acc, ok |-> FALSE]]
    ELSE [threw |-> FALSE, entry |-> TryEntry(h, acc, sku, f.value)]

\* The async function of one account: try { ... } catch (err) { ... }.  It
\* settles with an entry; threw |-> TRUE would be a rejected task promise.
TaskBody(h, acc, sku, f) ==
    IF f.threw
    THEN [threw |-> FALSE, entry |-> CatchEntry(h, acc, sku, f.err)]
    ELSE [threw |-> FALSE, entry |-> TryEntry(h, acc, sku, f.value)]

\* results = part: the part replaces what earlier chunks pushed
PushAllReplace(list, part) == part

\* results.push(...part)
PushAll(list, part) == list \o part

\* slice(i, i + NEW_API_CONCURRENCY + 1): one account too many per chunk
ChunkOffByOne(i, k, n) == {j \in 1..n : j > i /\ j <= i + k + 1}

\* contract_numbers.slice(i, i + NEW_API_CONCURRENCY), as the positions 1..n it holds
Chunk(i, k, n) == {j \in 1..n : j > i /\ j <= i + k}

\* Math.max(1, Number(env.NEW_API_CONCURRENCY || 1)) in bulk.js; get-bills hands
\* Number(process.env.NEW_API_CONCURRENCY || 6) to pLimit as it is.
EffectiveConcurrency(h, configured) ==
    IF h = "bulk" THEN Max(1, configured) ELSE configured

\* ------------------------------------------------------------------ state
VARIABLES
    env,               \* handler serving the request and its configuration
    body,              \* the parsed request body, until it is validated
    sku,               \* the trimmed provider code
    contract_numbers,  \* the trimmed, non-blank account identifiers
    phase,             \* "received", "running", "responded"
    chunkStart,        \* the loop variable i of the chunk loop of bulk.js
    results,           \* the results array of the handler
    response,          \* the HTTP response of the handler
    task,              \* per account: position, locals and pending timer of its task
    calls,             \* per account: upstream requests issued so far
    sleeps,            \* per account: backoff sleeps started so far
    last,              \* per account: outcome of its latest finished attempt
    fetched,           \* per account: what fetchWithTimeoutAndRetry returned or threw
    settled,           \* per account: the settled value of its task promise
    overtaken          \* some task settled before a task of a smaller position

VARIABLES
    serverFetch,       \* the call of fetchWithTimeoutRetry of server.js and its locals
    MEM,               \* server.js: the in-memory stores MEM.KHO and MEM.HISTORY
    IN_MEMORY_STORE,   \* kho-import.ts: its module variable IN_MEMORY_STORE
    KHO_MEMORY_STORE,  \* kho-list: global.__KHO_MEMORY_STORE__
    PROJECT_MEM,       \* sell / history: global.__PROJECT_TRA_CUU_MEM__ (KHO, HISTORY)
    kho,               \* Supabase: the rows of table kho, by key
    history,           \* Supabase: the rows of table history, in insertion order
    sales,             \* sell.ts: per member, its call of sellSupabase
    reply,             \* the latest response of an inventory endpoint
    LOCKS,             \* server.js: the keys of the Map LOCKS
    lockCalls          \* server.js: per member, its call of withLock

batchVars == <<env, body, sku, contract_numbers, phase, chunkStart, results, response,
               task, calls, sleeps, last, fetched, settled, overtaken>>

storeVars == <<MEM, IN_MEMORY_STORE, KHO_MEMORY_STORE, PROJECT_MEM,
               kho, history, sales, reply, LOCKS, lockCalls>>

vars == <<env, body, sku, contract_numbers, phase, chunkStart, results, response,
          task, calls, sleeps, last, fetched, settled, overtaken,
          serverFetch, MEM, IN_MEMORY_STORE, KHO_MEMORY_STORE, PROJECT_MEM,
          kho, history, sales, reply, LOCKS, lockCalls>>

\* the members that send sell requests
Members == {1, 2}

\* an empty object {}: a map without keys
NoKeys == << >>

\* fetchWithTimeoutRetry of server.js has not been called
ServerIdle ==
    [pc |-> "idle", retries |-> 0, remaining |-> 0, calls |-> 0, sleeps |-> 0,
     wait |-> 0, last |-> [kind |-> "none", status |-> 0, text |-> <<>>],
     result |-> "pending"]

\* the member has sent no sell request to the sell function
NoSale == [pc |-> "idle", keys |-> <<>>, khoRows |-> <<>>, inserted |-> <<>>,
           pos |-> 0, deleteFailed |-> FALSE, response |-> [op |-> "none"]]
NoReply == [op |-> "none"]

\* the member has no call of withLock
NoLockCall == [pc |-> "idle", key |-> <<>>, fn |-> "none", sold |-> FALSE,
               result |-> "none"]

\* the inventory services as they are when their processes have started
StoresEmpty ==
    /\ MEM = [KHO |-> NoKeys, HISTORY |-> <<>>]
    /\ IN_MEMORY_STORE = NoKeys
    /\ KHO_MEMORY_STORE = NoKeys
    /\ PROJECT_MEM = [KHO |-> NoKeys, HISTORY |-> <<>>]
    /\ kho = NoKeys
    /\ history = <<>>
    /\ sales = [m \in Members |-> NoSale]
    /\ reply = NoReply
    /\ LOCKS = {}
    /\ lockCalls = [m \in Members |-> NoLockCall]

NoBody == [contract_numbers |-> [isArray |-> FALSE, items |-> <<>>],
           sku |-> <<>>, provider_id |-> <<>>]
NoResponse == [status |-> 0]
Pending == [pending |-> TRUE]
\* (timer is the number of the attempt whose setTimeout is pending, 0 for none)
Queued == [pc |-> "queued", remaining |-> 0, backoff |-> 0, wait |-> 0,
           prevBackoff |-> 0, prevWait |-> 0, timer |-> 0]

\* the raw identifiers a body may list: plain, padded, blank
RawIds == {<<"A">>, <<" ", "B">>, <<" ">>}

RawLists(n) == UNION {[1..m -> RawIds] : m \in 0..n}

Bodies(n) ==
    {[contract_numbers |-> [isArray |-> TRUE, items |-> l], sku |-> s, provider_id |-> p] :
        l \in RawLists(n), s \in {<<>>, <<"P", " ">>}, p \in {<<>>, <<" ">>}}
    \cup {[contract_numbers |-> [isArray |-> FALSE, items |-> <<>>],
           sku |-> <<"P">>, provider_id |-> <<>>]}

InitWith(bodies, retries, concurrencies) ==
    /\ env \in [handler : Handlers, NEW_API_MAX_RETRIES : retries,
                NEW_API_CONCURRENCY : concurrencies]
    /\ body \in bodies
    /\ sku = <<>>
    /\ contract_numbers = <<>>
    /\ phase = "received"
    /\ chunkStart = 0
    /\ results = <<>>
    /\ response = NoResponse
    /\ task = <<>>
    /\ calls = <<>>
    /\ sleeps = <<>>
    /\ last = <<>>
    /\ fetched = <<>>
    /\ settled = <<>>
    /\ overtaken = FALSE
    /\ serverFetch = ServerIdle
    /\ StoresEmpty

Init == InitWith(Bodies(MaxAccounts), 0..MaxRetries, 1..MaxConcurrency)

N == Len(contract_numbers)
Concurrency == EffectiveConcurrency(env.handler, env.NEW_API_CONCURRENCY)
InFlight(t) == {i \in 1..Len(t) : t[i].pc \in {"fetch", "sleep"}}
Done(t) == {i \in 1..Len(t) : t[i].pc = "done"}

\* attempt(retries): the first fetch of an account is issued
Started(retries) == [Queued EXCEPT !.pc = "fetch", !.remaining = retries, !.timer = 1]

\* p-limit starts the task queued last: a stack instead of a queue
RECURSIVE DequeueLifo(_, _)
DequeueLifo(t, limit) ==
    LET queued == {i \in 1..Len(t) : t[i].pc = "queued"} IN
    IF queued = {} \/ Cardinality(InFlight(t)) >= limit THEN t
    ELSE LET i == CHOOSE x \in queued : \A y \in queued : x >= y
         IN  DequeueLifo([t EXCEPT ![i] = Started(env.NEW_API_MAX_RETRIES)], limit)

\* The positions p-limit starts next: queued tasks in FIFO order while fewer
\* than the limit are active.
RECURSIVE Dequeue(_, _)
Dequeue(t, limit) ==
    LET queued == {i \in 1..Len(t) : t[i].pc = "queued"} IN
    IF queued = {} \/ Cardinality(InFlight(t)) >= limit THEN t
    ELSE LET i == CHOOSE x \in queued : \A y \in queued : x <= y
         IN  Dequeue([t EXCEPT ![i] = Started(env.NEW_API_MAX_RETRIES)], limit)

\* chunk.map(async (acc) => ...): every task of the chunk issues its first fetch
StartChunk(t, i, k) ==
    [j \in 1..Len(t) |->
        IF j \in Chunk(i, k, Len(t)) THEN Started(env.NEW_API_MAX_RETRIES) ELSE t[j]]

StartedCalls(c, t) == [j \in 1..Len(t) |-> IF t[j].pc = "fetch" /\ c[j] = 0 THEN 1 ELSE c[j]]

\* pLimit(concurrency) throws a TypeError unless concurrency is an integer of
\* at least 1; the chunk loop of bulk.js calls no limiter.
LimitThrows(h, concurrency) == UsesPLimit(h) /\ concurrency < 1

\* the handler's outer catch answers with the message of that TypeError (its
\* quotation marks around the word concurrency are left out)
LimitError ==
    [status |-> 500,
     body |-> [error |-> <<"Expected concurrency to be a number from 1 and up">>]]

BadRequest(message) == [status |-> 400, body |-> [error |-> message]]

\* The handler up to its first await on upstream work: validation, then the
\* first chunk (bulk.js) or the first tasks p-limit lets through (get-bills).
HandleRequest ==
    /\ phase = "received"
    /\ LET cn == IF body.contract_numbers.isArray
                 THEN FilterBoolean(MapTrim(body.contract_numbers.items)) ELSE <<>>
           s == Trim(OrElse(body.sku, OrElse(body.provider_id, <<>>)))
           rejected == cn = <<>> \/ s = <<>>
           queue == [j \in 1..Len(cn) |-> Queued]
           t == IF UsesChunks(env.handler)
                THEN StartChunk(queue, 0, Concurrency)
                ELSE Dequeue(queue, Concurrency)
       IN  /\ body' = NoBody
           /\ IF rejected
              THEN /\ response' = IF cn = <<>>
                                  THEN BadRequest(<<"Thiếu contract_numbers (mảng)">>)
                                  ELSE BadRequest(<<"Thiếu sku (provider identifier)">>)
                   /\ phase' = "responded"
                   /\ UNCHANGED <<sku, contract_numbers, task, calls, sleeps, last,
                                  fetched, settled>>
              ELSE IF LimitThrows(env.handler, Concurrency)
              THEN /\ response' = LimitError
                   /\ phase' = "responded"
                   /\ sku' = s
                   /\ contract_numbers' = cn
                   /\ UNCHANGED <<task, calls, sleeps, last, fetched, settled>>
              ELSE /\ response' = response
                   /\ phase' = "running"
                   /\ sku' = s
                   /\ contract_numbers' = cn
                   /\ task' = t
                   /\ calls' = StartedCalls([j \in 1..Len(cn) |-> 0], t)
                   /\ sleeps' = [j \in 1..Len(cn) |-> 0]
                   /\ last' = [j \in 1..Len(cn) |-> NoOutcome]
                   /\ fetched' = [j \in 1..Len(cn) |-> Pending]
                   /\ settled' = [j \in 1..Len(cn) |-> Pending]
    /\ UNCHANGED <<env, chunkStart, results, overtaken>>

\* ----------------------------------------------------------------- actions
\* The task of account i settles but its slot is not freed: the tasks still
\* queued behind the limiter are never started.
SettleKeepsSlot(i, o, f) ==
    /\ task' = [task EXCEPT ![i] = [Queued EXCEPT !.pc = "done",
                                                  !.remaining = task[i].remaining]]
    /\ last' = [last EXCEPT ![i] = o]
    /\ fetched' = [fetched EXCEPT ![i] = f]
    /\ settled' = [settled EXCEPT
                      ![i] = TaskBody(env.handler, contract_numbers[i], sku, f)]
    /\ overtaken' = (overtaken \/ \E j \in 1..(i - 1) : task[j].pc # "done")
    /\ UNCHANGED <<env, body, sku, contract_numbers, phase, chunkStart, results,
                   response, sleeps, calls>>

\* The task of account i settles, but the finally block does not clear the
\* timer of the attempt that returned or threw.
SettleKeepsTimer(i, o, f) ==
    LET t == [task EXCEPT ![i] = [Queued EXCEPT !.pc = "done",
                                                !.remaining = task[i].remaining,
                                                !.timer = task[i].timer]]
        t2 == IF UsesPLimit(env.handler) THEN Dequeue(t, Concurrency) ELSE t
    IN  /\ task' = t2
        /\ calls' = StartedCalls(calls, t2)
        /\ last' = [last EXCEPT ![i] = o]
        /\ fetched' = [fetched EXCEPT ![i] = f]
        /\ settled' = [settled EXCEPT
                          ![i] = TaskBody(env.handler, contract_numbers[i], sku, f)]
        /\ overtaken' = (overtaken \/ \E j \in 1..(i - 1) : task[j].pc # "done")
        /\ UNCHANGED <<env, body, sku, contract_numbers, phase, chunkStart, results,
                       response, sleeps>>

\* The task of account i settles after fetchWithTimeoutAndRetry returned or
\* threw f (the finally block has cleared the timer of its last attempt);
\* under p-limit its slot goes to the next queued task at once.
Settle(i, o, f) ==
    LET t == [task EXCEPT ![i] = [Queued EXCEPT !.pc = "done",
                                                !.remaining = task[i].remaining]]
        t2 == IF UsesPLimit(env.handler) THEN Dequeue(t, Concurrency) ELSE t
    IN  /\ task' = t2
        /\ calls' = StartedCalls(calls, t2)
        /\ last' = [last EXCEPT ![i] = o]
        /\ fetched' = [fetched EXCEPT ![i] = f]
        /\ settled' = [settled EXCEPT
                          ![i] = TaskBody(env.handler, contract_numbers[i], sku, f)]
        /\ overtaken' = (overtaken \/ \E j \in 1..(i - 1) : task[j].pc # "done")
        /\ UNCHANGED <<env, body, sku, contract_numbers, phase, chunkStart, results,
                       response, sleeps>>

\* An attempt of account i gets a response whose body parses: attempt() returns.
AttemptReturns(i, o) ==
    /\ task[i].pc = "fetch"
    /\ LET r == AttemptResult(env.handler, o) IN
       /\ ~r.threw
       /\ Settle(i, o, r)

\* An attempt of account i fails with a fatal error, or with its last permitted
\* attempt used up: attempt() throws the error of this attempt.
AttemptThrows(i, o) ==
    /\ task[i].pc = "fetch"
    /\ o.kind = "abort" => task[i].timer = calls[i]
    /\ LET r == AttemptResult(env.handler, o) IN
       /\ r.threw
       /\ r.err.fatal \/ Exhausted(task[i].remaining)
       /\ Settle(i, o, r)

\* An attempt of account i fails, is not fatal and retries remain: the catch
\* clears the timer of the attempt and the task sleeps for the backoff plus a
\* jitter.
AttemptRetries(i, o, jitter) ==
    /\ task[i].pc = "fetch"
    /\ o.kind = "abort" => task[i].timer = calls[i]
    /\ LET r == AttemptResult(env.handler, o)
           backoff == Backoff(env.NEW_API_MAX_RETRIES, task[i].remaining)
       IN  /\ r.threw
           /\ ~r.err.fatal
           /\ ~Exhausted(task[i].remaining)
           /\ task' = [task EXCEPT ![i] =
                          [pc |-> "sleep", remaining |-> task[i].remaining,
                           backoff |-> backoff, wait |-> backoff + jitter,
                           prevBackoff |-> task[i].backoff,
                           prevWait |-> task[i].wait, timer |-> 0]]
           /\ sleeps' = [sleeps EXCEPT ![i] = sleeps[i] + 1]
           /\ last' = [last EXCEPT ![i] = o]
    /\ UNCHANGED <<env, body, sku, contract_numbers, phase, chunkStart, results,
                   response, calls, fetched, settled, overtaken>>

\* The sleep of account i ends: return attempt(remaining - 1) issues the next
\* fetch with a new AbortController and a new timer.
SleepEnds(i) ==
    /\ task[i].pc = "sleep"
    /\ task' = [task EXCEPT ![i].pc = "fetch", ![i].remaining = task[i].remaining - 1,
                            ![i].timer = calls[i] + 1]
    /\ calls' = [calls EXCEPT ![i] = calls[i] + 1]
    /\ last' = [last EXCEPT ![i] = NoOutcome]
    /\ UNCHANGED <<env, body, sku, contract_numbers, phase, chunkStart, results,
                   response, sleeps, fetched, settled, overtaken>>

InternalError == [status |-> 500, body |-> [error |-> <<"Internal error">>]]
OkResponse(list) == [status |-> 200, body |-> list]

\* bulk.js with a return inside the loop body: the handler responds with the
\* part of the first chunk while the accounts of later chunks still wait.
ChunkSettledOnce ==
    /\ phase = "running"
    /\ UsesChunks(env.handler)
    /\ LET chunk == Chunk(chunkStart, Concurrency, N)
           size == Cardinality(chunk)
           part == [j \in 1..size |-> settled[chunkStart + j].entry]
       IN  /\ chunk \subseteq Done(task)
           /\ results' = PushAll(results, part)
           /\ chunkStart' = chunkStart + Concurrency
           /\ response' = OkResponse(results')
           /\ phase' = "responded"
    /\ UNCHANGED <<env, body, sku, contract_numbers, sleeps, last, fetched, settled,
                   overtaken, task, calls>>

\* bulk.js: await Promise.all(chunk...) resumes; the part is pushed and the loop
\* starts the next chunk or the handler responds.  A rejected task promise
\* rejects Promise.all and reaches the handler's outer catch.
ChunkSettled ==
    /\ phase = "running"
    /\ UsesChunks(env.handler)
    /\ LET chunk == Chunk(chunkStart, Concurrency, N)
           rejected == \E j \in chunk : task[j].pc = "done" /\ settled[j].threw
           size == Cardinality(chunk)
           part == [j \in 1..size |-> settled[chunkStart + j].entry]
           next == chunkStart + Concurrency
       IN  /\ rejected \/ chunk \subseteq Done(task)
           /\ IF rejected
              THEN /\ response' = InternalError
                   /\ phase' = "responded"
                   /\ UNCHANGED <<results, chunkStart, task, calls>>
              ELSE /\ results' = PushAll(results, part)
                   /\ chunkStart' = next
                   /\ IF next < N
                      THEN /\ task' = StartChunk(task, next, Concurrency)
                           /\ calls' = StartedCalls(calls, task')
                           /\ UNCHANGED <<response, phase>>
                      ELSE /\ response' = OkResponse(results')
                           /\ phase' = "responded"
                           /\ UNCHANGED <<task, calls>>
    /\ UNCHANGED <<env, body, sku, contract_numbers, sleeps, last, fetched, settled,
                   overtaken>>

\* get-bills: await Promise.all(tasks) resumes and the handler responds.
AllSettled ==
    /\ phase = "running"
    /\ UsesPLimit(env.handler)
    /\ LET rejected == \E j \in 1..N : task[j].pc = "done" /\ settled[j].threw IN
       /\ rejected \/ Done(task) = 1..N
       /\ IF rejected
          THEN /\ response' = InternalError
               /\ UNCHANGED results
          ELSE /\ results' = [j \in 1..N |-> settled[j].entry]
               /\ response' = OkResponse(results')
    /\ phase' = "responded"
    /\ UNCHANGED <<env, body, sku, contract_numbers, chunkStart, task, calls, sleeps,
                   last, fetched, settled, overtaken>>

\* One step of the service against an upstream that may end an attempt in any
\* of the given outcomes, with the given jitter draws.
Step(outcomes, jitters) ==
    \/ HandleRequest /\ UNCHANGED <<serverFetch, storeVars>>
    \/ \E i \in 1..Len(task), o \in outcomes :
            AttemptReturns(i, o) /\ UNCHANGED <<serverFetch, storeVars>>
    \/ \E i \in 1..Len(task), o \in outcomes :
            AttemptThrows(i, o) /\ UNCHANGED <<serverFetch, storeVars>>
    \/ \E i \in 1..Len(task), o \in outcomes, jitter \in jitters :
            AttemptRetries(i, o, jitter) /\ UNCHANGED <<serverFetch, storeVars>>
    \/ \E i \in 1..Len(task) : SleepEnds(i) /\ UNCHANGED <<serverFetch, storeVars>>
    \/ ChunkSettled /\ UNCHANGED <<serverFetch, storeVars>>
    \/ AllSettled /\ UNCHANGED <<serverFetch, storeVars>>

\* The batch: several accounts under the concurrency ceiling, against an
\* upstream that answers with a bill, a fatal status, a non-JSON body or lets
\* the attempt time out.
BatchOutcomes ==
    { Response(200, TextBill), Response(200, TextHtml), Response(404, <<>>), TimerAbort }

Next == Step(BatchOutcomes, {0})

Spec == Init /\ [][Next]_vars

\* The batch under any configured concurrency, zero and negative included.
InitConfig == InitWith(Bodies(MaxAccounts), 0..MaxRetries, (0 - 1)..MaxConcurrency)

SpecConfig == InitConfig /\ [][Next]_vars

\* The batch under the scheduling of the event loop: a continuation that is
\* ready runs, every fetch ends in a response or in the abort of its timer and
\* every sleep ends.
LiveOutcomes == { Response(200, TextBill), TimerAbort }

InitLive ==
    InitWith({[contract_numbers |-> [isArray |-> TRUE, items |-> [j \in 1..n |-> <<"A">>]],
               sku |-> <<"P">>, provider_id |-> <<>>] : n \in 1..MaxAccounts},
             0..MaxRetries, 1..MaxConcurrency)

NextLive == Step(LiveOutcomes, {0})

\* the task of account i takes its next step: its attempt ends or its sleep ends
TaskStep(i) ==
    /\ i \in 1..Len(task)
    /\ \/ SleepEnds(i)
       \/ \E o \in LiveOutcomes :
              AttemptReturns(i, o) \/ AttemptThrows(i, o) \/ AttemptRetries(i, o, 0)
    /\ UNCHANGED <<serverFetch, storeVars>>

Fairness ==
    /\ WF_vars(HandleRequest /\ UNCHANGED <<serverFetch, storeVars>>)
    /\ WF_vars(ChunkSettled /\ UNCHANGED <<serverFetch, storeVars>>)
    /\ WF_vars(AllSettled /\ UNCHANGED <<serverFetch, storeVars>>)
    /\ \A i \in 1..MaxAccounts : WF_vars(TaskStep(i))

SpecLive == InitLive /\ [][NextLive]_vars /\ Fairness

\* A batch of one account more than the largest ceiling, run under that ceiling:
\* some account waits while the tasks started before it are under way.
InitWide ==
    InitWith({[contract_numbers |->
                   [isArray |-> TRUE, items |-> [j \in 1..(MaxConcurrency + 1) |-> <<"A">>]],
               sku |-> <<"P">>, provider_id |-> <<>>]},
             {MaxRetries}, {MaxConcurrency})

SpecWide == InitWide /\ [][NextLive]_vars

\* One account against an upstream that answers 200 with any body of the
\* payload family (or lets the attempt time out): what the normalizer is given.
PayloadTexts ==
    { TextBill, TextInner400Msg, TextNull, TextNumber, TextSuccessOnly, TextNoBills,
      TextBillsNull, TextBillsNumber, TextBadResponseText, <<>> }
    \cup { BillText(a, b, c) : a \in AmountValues, b \in AmountValues, c \in AmountValues }

PayloadOutcomes == { Response(200, text) : text \in PayloadTexts } \cup { TimerAbort }

InitPayload ==
    InitWith({[contract_numbers |-> [isArray |-> TRUE, items |-> <<<<"A">>>>],
               sku |-> <<"P">>, provider_id |-> <<>>]},
             {MaxRetries}, {1})

NextPayload == Step(PayloadOutcomes, {0})

SpecPayload == InitPayload /\ [][NextPayload]_vars

\* The batch against an upstream that is unreachable or too slow for some
\* attempts: a bill, a rejected fetch or the abort of the attempt's timer.
TransportOutcomes == { Response(200, TextBill), NetworkError, TimerAbort }

NextTransport == Step(TransportOutcomes, {0})

SpecTransport == Init /\ [][NextTransport]_vars

\* One account with a deep retry budget, against every outcome and jitter draw:
\* the retry loop and its backoff sequence up to the cap.
InitRetry ==
    InitWith({[contract_numbers |-> [isArray |-> TRUE, items |-> <<id>>],
               sku |-> <<"P">>, provider_id |-> <<>>] : id \in RawIds},
             0..DeepRetries, {1})

NextRetry == Step(Outcomes, JitterDraws)

SpecRetry == InitRetry /\ [][NextRetry]_vars

\* One account of a provider code and an identifier that may hold a colon:
\* the pairs a key is formed from.
KeySkus == { <<"P">>, <<"P", ":">> }
KeyIds == { <<"A">>, <<":", "A">> }

InitKey ==
    InitWith({[contract_numbers |-> [isArray |-> TRUE, items |-> <<id>>],
               sku |-> s, provider_id |-> <<>>] : id \in KeyIds, s \in KeySkus},
             0..MaxRetries, {1})

SpecKey == InitKey /\ [][Next]_vars

\* One account against an upstream that answers 200 with a payload carrying
\* any combination of the success flags, an error string, data.status_code,
\* data.response_text and a line item (or lets the attempt time out).
FieldTexts ==
    { PayloadText(success, error, dataSuccess, status_code, response_text, hasBills) :
        success \in BOOLEAN, error \in {<<>>, <<"E">>}, dataSuccess \in BOOLEAN,
        status_code \in {0, 400, 500}, response_text \in ResponseTexts,
        hasBills \in BOOLEAN }

FieldOutcomes == { Response(200, text) : text \in FieldTexts } \cup { TimerAbort }

NextFields == Step(FieldOutcomes, {0})

SpecFields == InitPayload /\ [][NextFields]_vars

\* ------------------------------------------- server.js: upstream fetch
\* No batch request has reached the batch handlers.
BatchIdle ==
    /\ env = [handler |-> "bulk", NEW_API_MAX_RETRIES |-> 0, NEW_API_CONCURRENCY |-> 1]
    /\ body = NoBody
    /\ sku = <<>>
    /\ contract_numbers = <<>>
    /\ phase = "idle"
    /\ chunkStart = 0
    /\ results = <<>>
    /\ response = NoResponse
    /\ task = <<>>
    /\ calls = <<>>
    /\ sleeps = <<>>
    /\ last = <<>>
    /\ fetched = <<>>
    /\ settled = <<>>
    /\ overtaken = FALSE

\* const base = 300 of fetchWithTimeoutRetry
ServerBackoffBase == 300

\* Math.min(base * Math.pow(2, NEW_API_MAX_RETRIES - remaining), 10000)
ServerBackoff(maxRetries, remaining) ==
    Min(ServerBackoffBase * Pow2(maxRetries - remaining), BackoffCap)

\* The try block of attempt() of server.js throws: the fetch rejected or was
\* aborted, the status is not ok (a 4xx is thrown inside the try like any
\* other status), or JSON.parse(text) fails (the empty text included).
ServerAttemptFails(o) ==
    \/ o.kind \in {"neterr", "abort"}
    \/ o.kind = "response" /\ ~ResponseOk(o.status)
    \/ o.kind = "response" /\ ~JsonParse(o.text).ok

\* fetchWithTimeoutRetry(url, opts): attempt(retries) issues the first fetch
ServerCall ==
    /\ serverFetch.pc = "idle"
    /\ serverFetch' = [serverFetch EXCEPT !.pc = "fetch",
                                          !.remaining = serverFetch.retries,
                                          !.calls = 1]

\* return JSON.parse(text)
ServerAttemptReturns(o) ==
    /\ serverFetch.pc = "fetch"
    /\ ~ServerAttemptFails(o)
    /\ serverFetch' = [serverFetch EXCEPT !.pc = "done", !.last = o,
                                          !.result = "returned"]

\* catch (err): if (remaining <= 0) throw err
ServerAttemptThrows(o) ==
    /\ serverFetch.pc = "fetch"
    /\ ServerAttemptFails(o)
    /\ serverFetch.remaining <= 0
    /\ serverFetch' = [serverFetch EXCEPT !.pc = "done", !.last = o,
                                          !.result = "threw"]

\* catch (err): the backoff sleep before attempt(remaining - 1); the catch
\* does not look at the status of the error
ServerAttemptRetries(o, jitter) ==
    /\ serverFetch.pc = "fetch"
    /\ ServerAttemptFails(o)
    /\ serverFetch.remaining > 0
    /\ serverFetch' =
          [serverFetch EXCEPT !.pc = "sleep", !.last = o,
                              !.sleeps = serverFetch.sleeps + 1,
                              !.wait = ServerBackoff(serverFetch.retries,
                                                     serverFetch.remaining) + jitter]

\* the sleep ends: return attempt(remaining - 1)
ServerSleepEnds ==
    /\ serverFetch.pc = "sleep"
    /\ serverFetch' = [serverFetch EXCEPT !.pc = "fetch",
                                          !.remaining = serverFetch.remaining - 1,
                                          !.calls = serverFetch.calls + 1]

InitServer ==
    /\ BatchIdle
    /\ StoresEmpty
    /\ serverFetch \in {[ServerIdle EXCEPT !.retries = m] : m \in 0..DeepRetries}

NextServer ==
    \/ ServerCall /\ UNCHANGED <<batchVars, storeVars>>
    \/ \E o \in Outcomes : ServerAttemptReturns(o) /\ UNCHANGED <<batchVars, storeVars>>
    \/ \E o \in Outcomes : ServerAttemptThrows(o) /\ UNCHANGED <<batchVars, storeVars>>
    \/ \E o \in Outcomes, jitter \in JitterDraws :
            ServerAttemptRetries(o, jitter) /\ UNCHANGED <<batchVars, storeVars>>
    \/ ServerSleepEnds /\ UNCHANGED <<batchVars, storeVars>>

SpecServer == InitServer /\ [][NextServer]_vars

\* ------------------------------------------ server.js: single bill check
\* The record normalizeUpstream returns: the bill and the instant nowISO() read.
ServerBill(provider, account, name, address, month, money, raw, now) ==
    [key |-> BillKey(provider, account), provider_id |-> provider, account |-> account,
     name |-> name, address |-> address, month |-> month,
     amount_previous |-> <<"0">>, amount_current |-> money, total |-> money,
     raw |-> raw, created_at |-> now]

\* normalizeUpstream(resp, account, sku) of server.js, with the instant its
\* nowISO() reads.
normalizeUpstream(resp, account, provider, now) ==
    LET bills == IF resp.hasData THEN resp.data.bills ELSE <<>> IN
    IF IsJsValue(resp)
    THEN ServerBill(provider, account, PlaceholderName(account), <<"No debt / no data">>,
                    <<>>, <<"0">>, resp, now)
    ELSE IF resp.success /\ resp.hasData /\ resp.data.success /\ Len(bills) > 0
    THEN IF bills[1] = Null
         THEN ServerBill(provider, account, PlaceholderName(account), <<"Parse error">>,
                         <<>>, <<"0">>, resp, now)
         ELSE LET bill == IF IsJsValue(bills[1]) THEN PrimitiveItem ELSE bills[1]
                  money == safeNumber(Coalesce(bill.moneyAmount,
                               Coalesce(bill.money_amount,
                                        Coalesce(bill.amount, Num(0)))))
              IN  ServerBill(provider, account,
                             OrElse(bill.customerName, OrElse(bill.customer_name, <<"-">>)),
                             OrElse(bill.address, <<"-">>), bill.month,
                             NumberToString(money), resp, now)
    ELSE ServerBill(provider, account, PlaceholderName(account),
                    OrElse(resp.error, <<"No debt / no data">>), <<>>, <<"0">>, resp, now)

\* app.post('/api/check-electricity') after fetchWithTimeoutRetry has settled:
\* the answer { raw, normalized }, or 502 from the catch. The server is then
\* ready for the next request.
ServerCheckReply(now) ==
    /\ serverFetch.pc = "done"
    /\ IF serverFetch.result = "returned"
       THEN LET upstream == JsonParse(serverFetch.last.text).value IN
            reply' = [op |-> "check", status |-> 200, raw |-> upstream,
                      normalized |-> normalizeUpstream(upstream, <<"A">>, <<"P">>, now)]
       ELSE reply' = [op |-> "check", status |-> 502]
    /\ serverFetch' = [ServerIdle EXCEPT !.retries = serverFetch.retries]

InitCheck ==
    /\ BatchIdle
    /\ StoresEmpty
    /\ serverFetch \in {[ServerIdle EXCEPT !.retries = m] : m \in 0..MaxRetries}

NextCheck ==
    \/ NextServer
    \/ \E now \in 1..MaxClock :
            /\ reply.op = "check" /\ reply.status = 200
                    => now >= reply.normalized.created_at
            /\ ServerCheckReply(now)
            /\ UNCHANGED <<batchVars, LOCKS, lockCalls, MEM, IN_MEMORY_STORE,
                           KHO_MEMORY_STORE,
                           PROJECT_MEM, kho, history, sales>>

SpecCheck == InitCheck /\ [][NextCheck]_vars

\* ------------------------------------- server.js: inventory in memory mode
\* safeNumber of server.js: null and undefined are 0, a finite Number(v) is
\* itself, otherwise the characters other than digits, "." and "-" are dropped
\* and the rest is read as a number (0 when that is not finite either).
serverSafeNumber(v) ==
    IF v.t \in {"undefined", "null"} THEN 0
    ELSE IF ToNumber(v).finite THEN ToNumber(v).n
    ELSE LET kept == SelectSeq(v.s, LAMBDA c : IsDigit(c) \/ c \in {".", "-"})
             n2 == ToNumber(Str(kept))
         IN  IF n2.finite THEN n2.n ELSE 0

\* obj[key] = value and delete obj[key] on a map from keys to items
Put(map, key, value) ==
    [k \in DOMAIN map \cup {key} |-> IF k = key THEN value ELSE map[k]]
Delete(map, key) == [k \in DOMAIN map \ {key} |-> map[k]]

\* MEM.KHO and IN_MEMORY_STORE are object literals {}: a name every object
\* inherits from Object.prototype reads as that member, a function, although
\* the map holds no record under it. The one such name requests send here.
ToStringName == <<"t", "o", "S", "t", "r", "i", "n", "g">>
InheritedNames == { ToStringName }

\* if (obj[key]): the map holds a record under the key, or the key is an
\* inherited name
Truthy(map, key) == key \in DOMAIN map \/ key \in InheritedNames

\* One element of req.body.bills: key (the empty string when absent),
\* provider_id, account and the amounts.
ImportBill(key, provider_id, account, amount_previous, amount_current, total) ==
    [key |-> key, provider_id |-> provider_id, account |-> account,
     amount_previous |-> amount_previous, amount_current |-> amount_current,
     total |-> total]

\* (b.key || `${b.provider_id || 'UNK'}::${b.account || ''}`).toString()
ImportKey(b) == OrElse(b.key, BillKey(OrElse(b.provider_id, <<"UNK">>), b.account))

\* The item /api/kho/import builds of a bill (its name, address, customer,
\* raw and its timestamps nhapAt and created_at are left out).
ImportItem(b) ==
    [key |-> ImportKey(b), account |-> b.account, provider_id |-> b.provider_id,
     amount_previous |-> serverSafeNumber(b.amount_previous),
     amount_current |-> serverSafeNumber(b.amount_current),
     total |-> serverSafeNumber(Coalesce(b.total, b.amount_current))]

\* for (const it of items): MEM.KHO[key] = { ...MEM.KHO[key], ...it } or it;
\* the item defines every field, so the merge is the item
RECURSIVE UpsertAll(_, _)
UpsertAll(store, bills) ==
    IF bills = <<>> THEN store
    ELSE UpsertAll(Put(store, ImportKey(Head(bills)), ImportItem(Head(bills))),
                   Tail(bills))

\* the counter added of that loop
RECURSIVE CountAdded(_, _)
CountAdded(store, bills) ==
    IF bills = <<>> THEN 0
    ELSE (IF Truthy(store, ImportKey(Head(bills))) THEN 0 ELSE 1)
         + CountAdded(Put(store, ImportKey(Head(bills)), ImportItem(Head(bills))),
                      Tail(bills))

\* POST /api/kho/import without a database pool
KhoImport(bills) ==
    /\ IF bills = <<>>
       THEN /\ reply' = [op |-> "import", status |-> 400,
                         error |-> <<"Missing bills array">>]
            /\ MEM' = MEM
       ELSE /\ MEM' = [MEM EXCEPT !.KHO = UpsertAll(MEM.KHO, bills)]
            /\ reply' = [op |-> "import", status |-> 200,
                         added |-> CountAdded(MEM.KHO, bills),
                         updated |-> Len(bills) - CountAdded(MEM.KHO, bills),
                         total |-> Cardinality(DOMAIN UpsertAll(MEM.KHO, bills))]

\* for (const k of keys) if (MEM.KHO[k]) { delete MEM.KHO[k]; removed++ }
RECURSIVE RemoveAll(_, _)
RemoveAll(store, keys) ==
    IF keys = <<>> THEN store ELSE RemoveAll(Delete(store, Head(keys)), Tail(keys))

\* the counter removed of that loop
RECURSIVE CountRemoved(_, _)
CountRemoved(store, keys) ==
    IF keys = <<>> THEN 0
    ELSE (IF Truthy(store, Head(keys)) THEN 1 ELSE 0)
         + CountRemoved(Delete(store, Head(keys)), Tail(keys))

\* POST /api/kho/remove without a database pool
KhoRemove(keys) ==
    /\ IF keys = <<>>
       THEN /\ reply' = [op |-> "remove", status |-> 400,
                         error |-> <<"Missing keys array">>]
            /\ MEM' = MEM
       ELSE /\ MEM' = [MEM EXCEPT !.KHO = RemoveAll(MEM.KHO, keys)]
            /\ reply' = [op |-> "remove", status |-> 200,
                         removed |-> CountRemoved(MEM.KHO, keys)]

\* GET /api/kho/list without filters: Object.values(MEM.KHO) (its order by
\* timestamp is left out: the reply holds the items as a set)
KhoList ==
    /\ reply' = [op |-> "list", status |-> 200,
                 items |-> {MEM.KHO[k] : k \in DOMAIN MEM.KHO}]
    /\ MEM' = MEM

\* arr.reverse()
Reverse(list) == [i \in 1..Len(list) |-> list[Len(list) + 1 - i]]

\* MEM.HISTORY.reverse() without the slice(): the stored array is reversed
KhoHistoryInPlace ==
    /\ reply' = [op |-> "history", status |-> 200, rows |-> Reverse(MEM.HISTORY)]
    /\ MEM' = [MEM EXCEPT !.HISTORY = Reverse(MEM.HISTORY)]

\* GET /api/history without filters: MEM.HISTORY.slice().reverse(), a copy
KhoHistory ==
    /\ reply' = [op |-> "history", status |-> 200, rows |-> Reverse(MEM.HISTORY)]
    /\ MEM' = MEM

\* The history entry of a sold item (its id and timestamps are left out).
HistoryEntry(item, memberId) ==
    [key |-> item.key, account |-> item.account, provider_id |-> item.provider_id,
     amount_previous |-> item.amount_previous, amount_current |-> item.amount_current,
     total |-> item.total, member_id |-> memberId]

\* The loop of the sell handlers over keys, on a store st = [KHO, HISTORY,
\* sold]: a key that is in KHO is pushed to HISTORY and deleted from KHO.
RECURSIVE SellKeepsItems(_, _, _)
SellKeepsItems(st, keys, memberId) ==
    IF keys = <<>> THEN st
    ELSE IF Head(keys) \notin DOMAIN st.KHO
    THEN SellKeepsItems(st, Tail(keys), memberId)
    ELSE LET hist == HistoryEntry(st.KHO[Head(keys)], memberId) IN
         SellKeepsItems([KHO |-> st.KHO,
                         HISTORY |-> Append(st.HISTORY, hist),
                         sold |-> Append(st.sold, hist)],
                        Tail(keys), memberId)

RECURSIVE SellAll(_, _, _)
SellAll(st, keys, memberId) ==
    IF keys = <<>> THEN st
    ELSE IF Head(keys) \notin DOMAIN st.KHO
    THEN SellAll(st, Tail(keys), memberId)
    ELSE LET hist == HistoryEntry(st.KHO[Head(keys)], memberId) IN
         SellAll([KHO |-> Delete(st.KHO, Head(keys)),
                  HISTORY |-> Append(st.HISTORY, hist),
                  sold |-> Append(st.sold, hist)],
                 Tail(keys), memberId)

\* POST /api/sell without a database pool.  The body of withLock's callback
\* awaits nothing, so the whole loop runs in the task of the request and its
\* microtasks: no other request runs between two keys.
KhoSell(memberId, keys) ==
    /\ IF keys = <<>>
       THEN /\ reply' = [op |-> "sell", status |-> 400, error |-> <<"Missing keys">>]
            /\ MEM' = MEM
       ELSE LET st == SellAll([KHO |-> MEM.KHO, HISTORY |-> MEM.HISTORY, sold |-> <<>>],
                              keys, memberId)
            IN  /\ Len(st.HISTORY) <= MaxHistory
                /\ MEM' = [KHO |-> st.KHO, HISTORY |-> st.HISTORY]
                /\ reply' = [op |-> "sell", status |-> 200, ok |-> TRUE,
                             sold_count |-> Len(st.sold), history |-> st.sold]

\* the bills of import requests: without a key of their own (the total given
\* or left to amount_current) and with one
ImportBills ==
    { ImportBill(<<>>, <<"P">>, <<"A">>, Undefined, Str(<<"7", "d">>), Undefined),
      ImportBill(<<>>, <<"P">>, <<"A">>, Undefined, Str(<<"7", "d">>), Num(9)),
      ImportBill(<<"K">>, <<"P">>, <<"A">>, Undefined, Str(<<"7", "d">>), Undefined) }

\* the keys requests name: the two keys imports form, stored or not
RequestKeys == { <<"K">>, BillKey(<<"P">>, <<"A">>) }

\* the member of the sell requests in memory mode
Buyer == 1

ListsOf(set, n) == UNION {[1..m -> set] : m \in 0..n}

InitMemory ==
    /\ BatchIdle
    /\ serverFetch = ServerIdle
    /\ StoresEmpty

NextMemory ==
    \/ \E bills \in ListsOf(ImportBills, MaxKeys) :
            KhoImport(bills) /\ UNCHANGED <<batchVars, LOCKS, lockCalls, serverFetch, IN_MEMORY_STORE,
                   KHO_MEMORY_STORE, PROJECT_MEM, kho, history, sales>>
    \/ \E keys \in ListsOf(RequestKeys, MaxKeys) :
            KhoRemove(keys) /\ UNCHANGED <<batchVars, LOCKS, lockCalls, serverFetch, IN_MEMORY_STORE,
                   KHO_MEMORY_STORE, PROJECT_MEM, kho, history, sales>>
    \/ KhoList /\ UNCHANGED <<batchVars, LOCKS, lockCalls, serverFetch, IN_MEMORY_STORE,
                   KHO_MEMORY_STORE, PROJECT_MEM, kho, history, sales>>
    \/ KhoHistory /\ UNCHANGED <<batchVars, LOCKS, lockCalls, serverFetch, IN_MEMORY_STORE,
                   KHO_MEMORY_STORE, PROJECT_MEM, kho, history, sales>>
    \/ \E keys \in ListsOf(RequestKeys, MaxKeys) :
            KhoSell(Buyer, keys) /\ UNCHANGED <<batchVars, LOCKS, lockCalls, serverFetch, IN_MEMORY_STORE,
                   KHO_MEMORY_STORE, PROJECT_MEM, kho, history, sales>>

SpecMemory == InitMemory /\ [][NextMemory]_vars

\* ------------------------------------------------------- server.js: withLock
\* setTimeout(r, 40) of the wait loop and the default ttl of withLock
LockPollMs == 40
LockTtl == 5000

\* the lock key of the sell handler for an inventory key
LockKey(key) == <<"kho:">> \o key

\* while (false): the loop never waits
LockHeldNever(key) == FALSE

\* LOCKS.get(key)
LockHeld(key) == LockKey(key) \in LOCKS

\* The functions passed to withLock: the callback of the sell handler, which
\* sells the key if MEM.KHO holds it, and a function that throws.
LockCallbacks == {"sell", "throws"}

\* LOCKS.set(key, true) and the call fn() up to the await of its promise. The
\* callback of the sell handler awaits nothing: its body has run when fn()
\* returns.
LockEnter(m, key, fn) ==
    LET st == IF fn = "sell"
              THEN SellAll([KHO |-> MEM.KHO, HISTORY |-> MEM.HISTORY, sold |-> <<>>],
                           <<key>>, m)
              ELSE [KHO |-> MEM.KHO, HISTORY |-> MEM.HISTORY, sold |-> <<>>]
    IN  /\ LOCKS' = LOCKS \cup {LockKey(key)}
        /\ MEM' = [KHO |-> st.KHO, HISTORY |-> st.HISTORY]
        /\ lockCalls' = [lockCalls EXCEPT ![m] =
                            [pc |-> "running", key |-> key, fn |-> fn,
                             sold |-> st.sold # <<>>, result |-> "none"]]

\* withLock(key, fn) is called: the first test of the wait loop
LockCall(m, key, fn) ==
    /\ lockCalls[m].pc \in {"idle", "done"}
    /\ IF LockHeld(key)
       THEN /\ lockCalls' = [lockCalls EXCEPT ![m] =
                                [pc |-> "wait", key |-> key, fn |-> fn,
                                 sold |-> FALSE, result |-> "none"]]
            /\ UNCHANGED <<LOCKS, MEM>>
       ELSE LockEnter(m, key, fn)

\* The timer of the wait loop fires, elapsed ms after the call: 'Lock timeout'
\* is thrown past the ttl, otherwise the loop tests the lock again.
LockWake(m, elapsed) ==
    /\ lockCalls[m].pc = "wait"
    /\ IF elapsed > LockTtl
       THEN /\ lockCalls' = [lockCalls EXCEPT ![m].pc = "done",
                                              ![m].result = "timeout"]
            /\ UNCHANGED <<LOCKS, MEM>>
       ELSE IF LockHeld(lockCalls[m].key)
       THEN UNCHANGED <<LOCKS, MEM, lockCalls>>
       ELSE LockEnter(m, lockCalls[m].key, lockCalls[m].fn)

\* await fn() settles: the finally block deletes the lock, and withLock
\* returns what fn returned or throws what it threw.
LockSettle(m) ==
    /\ lockCalls[m].pc = "running"
    /\ LOCKS' = LOCKS \ {LockKey(lockCalls[m].key)}
    /\ lockCalls' = [lockCalls EXCEPT
                        ![m].pc = "done",
                        ![m].result = IF lockCalls[m].fn = "throws"
                                      THEN "threw" ELSE "returned"]
    /\ MEM' = MEM

\* the server with both keys in its inventory and no call of withLock
InitLock ==
    /\ BatchIdle
    /\ serverFetch = ServerIdle
    /\ MEM = [KHO |-> UpsertAll(NoKeys,
                   <<ImportBill(<<>>, <<"P">>, <<"A">>, Undefined, Str(<<"7", "d">>), Undefined),
                     ImportBill(<<"K">>, <<"P">>, <<"A">>, Undefined, Str(<<"7", "d">>), Undefined)>>),
              HISTORY |-> <<>>]
    /\ IN_MEMORY_STORE = NoKeys
    /\ KHO_MEMORY_STORE = NoKeys
    /\ PROJECT_MEM = [KHO |-> NoKeys, HISTORY |-> <<>>]
    /\ kho = NoKeys
    /\ history = <<>>
    /\ sales = [m \in Members |-> NoSale]
    /\ reply = NoReply
    /\ LOCKS = {}
    /\ lockCalls = [m \in Members |-> NoLockCall]

NextLock ==
    \/ \E m \in Members, key \in RequestKeys, fn \in LockCallbacks :
            LockCall(m, key, fn)
            /\ UNCHANGED <<batchVars, serverFetch, IN_MEMORY_STORE, KHO_MEMORY_STORE,
                           PROJECT_MEM, kho, history, sales, reply>>
    \/ \E m \in Members, elapsed \in {LockPollMs, LockTtl + LockPollMs} :
            LockWake(m, elapsed)
            /\ UNCHANGED <<batchVars, serverFetch, IN_MEMORY_STORE, KHO_MEMORY_STORE,
                           PROJECT_MEM, kho, history, sales, reply>>
    \/ \E m \in Members :
            LockSettle(m)
            /\ UNCHANGED <<batchVars, serverFetch, IN_MEMORY_STORE, KHO_MEMORY_STORE,
                           PROJECT_MEM, kho, history, sales, reply>>

SpecLock == InitLock /\ [][NextLock]_vars

\* ------------------------------------------ sell.ts: sell through Supabase
\* The row of table kho stored under a key.
KhoRow(key) ==
    [key |-> key, account |-> <<"A">>, provider_id |-> <<"P">>,
     amount_previous |-> 0, amount_current |-> 7, total |-> 7]

\* the contents table kho may have when the function starts: any of the keys
KhoTables == { [k \in keys |-> KhoRow(k)] : keys \in SUBSET RequestKeys }

\* return { statusCode: 500, body: { error } } of the handler's catch
SaleFailed(message) == [op |-> "sell", status |-> 500, error |-> message]

\* return { statusCode: 200, body: result }
SaleResult(inserted) ==
    [op |-> "sell", status |-> 200, ok |-> TRUE,
     sold_count |-> Len(inserted), history |-> inserted]

\* The handler of sell.ts with Supabase configured, for a request that names
\* one key (several key=eq filters in one query are left to PostgREST): it
\* validates the body and awaits fetchMemberSupabase.
SaleRequest(m, keys) ==
    /\ sales[m].pc = "idle"
    /\ IF keys = <<>>
       THEN /\ sales' = [sales EXCEPT ![m].pc = "done",
                             ![m].response = [op |-> "sell", status |-> 400,
                                              error |-> <<"Missing keys array">>]]
            /\ reply' = [op |-> "sell", status |-> 400,
                         error |-> <<"Missing keys array">>]
       ELSE /\ sales' = [sales EXCEPT ![m].pc = "member", ![m].keys = keys]
            /\ reply' = reply
    /\ UNCHANGED <<kho, history>>

\* fetchMemberSupabase answers; then sellSupabase sends its query of kho
SaleMember(m, ok) ==
    /\ sales[m].pc = "member"
    /\ IF ok
       THEN /\ sales' = [sales EXCEPT ![m].pc = "fetching"]
            /\ reply' = reply
       ELSE /\ sales' = [sales EXCEPT ![m].pc = "done",
                             ![m].response = SaleFailed(<<"Supabase fetch member failed">>)]
            /\ reply' = SaleFailed(<<"Supabase fetch member failed">>)
    /\ UNCHANGED <<kho, history>>

\* 1) the rows of kho under the keys, as they are when the query is answered
RowsOf(table, keys) ==
    SelectSeq([p \in 1..Len(keys) |->
                  IF keys[p] \in DOMAIN table THEN table[keys[p]]
                  ELSE [key |-> <<>>]],
              LAMBDA row : row.key # <<>>)

SaleFetch(m, ok) ==
    /\ sales[m].pc = "fetching"
    /\ LET khoRows == RowsOf(kho, sales[m].keys) IN
       IF ~ok
       THEN /\ sales' = [sales EXCEPT ![m].pc = "done",
                             ![m].response = SaleFailed(<<"Supabase fetch kho failed">>)]
            /\ reply' = SaleFailed(<<"Supabase fetch kho failed">>)
       ELSE IF khoRows = <<>>
       THEN /\ sales' = [sales EXCEPT ![m].pc = "done",
                                      ![m].response = SaleResult(<<>>)]
            /\ reply' = SaleResult(<<>>)
       ELSE /\ sales' = [sales EXCEPT ![m].pc = "inserting", ![m].khoRows = khoRows]
            /\ reply' = reply
    /\ UNCHANGED <<kho, history>>

\* historyPayload of sellSupabase
HistoryPayload(khoRows, m) == [p \in 1..Len(khoRows) |-> HistoryEntry(khoRows[p], m)]

\* 2) the POST of the history rows is answered; then the first DELETE is sent
SaleInsert(m, ok) ==
    /\ sales[m].pc = "inserting"
    /\ IF ok
       THEN /\ history' = history \o HistoryPayload(sales[m].khoRows, m)
            /\ sales' = [sales EXCEPT ![m].pc = "deleting", ![m].pos = 1,
                             ![m].inserted = HistoryPayload(sales[m].khoRows, m)]
            /\ reply' = reply
       ELSE /\ history' = history
            /\ sales' = [sales EXCEPT ![m].pc = "done",
                             ![m].response = SaleFailed(<<"Supabase insert history failed">>)]
            /\ reply' = SaleFailed(<<"Supabase insert history failed">>)
    /\ kho' = kho

\* 3) the DELETE of one key is answered: a failure is logged (logWarn) and the
\* loop goes on; after the last key sellSupabase returns { ok: true, ... }
SaleDelete(m, ok) ==
    /\ sales[m].pc = "deleting"
    /\ LET key == sales[m].keys[sales[m].pos]
           isLast == sales[m].pos = Len(sales[m].keys)
       IN  /\ kho' = IF ok THEN Delete(kho, key) ELSE kho
           /\ sales' = [sales EXCEPT
                 ![m].deleteFailed = sales[m].deleteFailed \/ ~ok,
                 ![m].pos = sales[m].pos + 1,
                 ![m].pc = IF isLast THEN "done" ELSE "deleting",
                 ![m].response = IF isLast THEN SaleResult(sales[m].inserted)
                                 ELSE sales[m].response]
           /\ reply' = IF isLast THEN SaleResult(sales[m].inserted) ELSE reply
    /\ history' = history

InitSupabase ==
    /\ BatchIdle
    /\ serverFetch = ServerIdle
    /\ MEM = [KHO |-> NoKeys, HISTORY |-> <<>>]
    /\ IN_MEMORY_STORE = NoKeys
    /\ KHO_MEMORY_STORE = NoKeys
    /\ PROJECT_MEM = [KHO |-> NoKeys, HISTORY |-> <<>>]
    /\ kho \in KhoTables
    /\ history = <<>>
    /\ sales = [m \in Members |-> NoSale]
    /\ reply = NoReply
    /\ LOCKS = {}
    /\ lockCalls = [m \in Members |-> NoLockCall]

NextSupabase ==
    \/ \E m \in Members, keys \in ListsOf(RequestKeys, 1) :
            SaleRequest(m, keys) /\ UNCHANGED <<batchVars, LOCKS, lockCalls, serverFetch, MEM,
                   IN_MEMORY_STORE, KHO_MEMORY_STORE, PROJECT_MEM>>
    \/ \E m \in Members, ok \in BOOLEAN :
            SaleMember(m, ok) /\ UNCHANGED <<batchVars, LOCKS, lockCalls, serverFetch, MEM,
                   IN_MEMORY_STORE, KHO_MEMORY_STORE, PROJECT_MEM>>
    \/ \E m \in Members, ok \in BOOLEAN :
            SaleFetch(m, ok) /\ UNCHANGED <<batchVars, LOCKS, lockCalls, serverFetch, MEM,
                   IN_MEMORY_STORE, KHO_MEMORY_STORE, PROJECT_MEM>>
    \/ \E m \in Members, ok \in BOOLEAN :
            SaleInsert(m, ok) /\ UNCHANGED <<batchVars, LOCKS, lockCalls, serverFetch, MEM,
                   IN_MEMORY_STORE, KHO_MEMORY_STORE, PROJECT_MEM>>
    \/ \E m \in Members, ok \in BOOLEAN :
            SaleDelete(m, ok) /\ UNCHANGED <<batchVars, LOCKS, lockCalls, serverFetch, MEM,
                   IN_MEMORY_STORE, KHO_MEMORY_STORE, PROJECT_MEM>>

SpecSupabase == InitSupabase /\ [][NextSupabase]_vars

\* --------------------------------- Netlify functions: inventory in memory
\* isValidBill of kho-import.ts: key is a non-empty string (account and
\* provider_id are strings in every bill drawn here)
isValidBill(b) == b.key # <<>>

\* filter(isValidBill)
FilterValid(bills) == SelectSeq(bills, isValidBill)

\* The record upsertInMemory stores for bill b under its key: a new record,
\* or the stored one with the fields the bill provides (its name, address,
\* customer, raw and timestamps are left out; the amounts are kept as given).
UpsertRecord(store, b) ==
    IF b.key \in DOMAIN store
    THEN [key |-> store[b.key].key, account |-> b.account, provider_id |-> b.provider_id,
          amount_previous |->
              Coalesce(b.amount_previous, Coalesce(store[b.key].amount_previous, Num(0))),
          amount_current |->
              Coalesce(b.amount_current, Coalesce(store[b.key].amount_current, Num(0))),
          total |-> Coalesce(b.total, Coalesce(store[b.key].total, Num(0)))]
    ELSE IF b.key \in InheritedNames
    THEN [key |-> <<>>, account |-> b.account, provider_id |-> b.provider_id,
          amount_previous |-> Coalesce(b.amount_previous, Num(0)),
          amount_current |-> Coalesce(b.amount_current, Num(0)),
          total |-> Coalesce(b.total, Num(0))]
    ELSE [key |-> b.key, account |-> b.account, provider_id |-> b.provider_id,
          amount_previous |-> Coalesce(b.amount_previous, Num(0)),
          amount_current |-> Coalesce(b.amount_current, Num(0)),
          total |-> Coalesce(b.total, Coalesce(b.amount_current, Num(0)))]

\* for (const b of bills) of upsertInMemory
RECURSIVE upsertInMemory(_, _)
upsertInMemory(store, bills) ==
    IF bills = <<>> THEN store
    ELSE upsertInMemory(Put(store, Head(bills).key, UpsertRecord(store, Head(bills))),
                        Tail(bills))

\* the counter added of upsertInMemory
RECURSIVE CountNew(_, _)
CountNew(store, bills) ==
    IF bills = <<>> THEN 0
    ELSE (IF Truthy(store, Head(bills).key) THEN 0 ELSE 1)
         + CountNew(Put(store, Head(bills).key, UpsertRecord(store, Head(bills))),
                    Tail(bills))

\* The handler of kho-import.ts without Supabase: it writes the module
\* variable IN_MEMORY_STORE of kho-import.ts.
NetlifyImport(bills) ==
    LET valid == FilterValid(bills) IN
    /\ IF bills = <<>>
       THEN /\ reply' = [op |-> "import", status |-> 400,
                         error |-> <<"Missing bills array">>]
            /\ IN_MEMORY_STORE' = IN_MEMORY_STORE
       ELSE IF valid = <<>>
       THEN /\ reply' = [op |-> "import", status |-> 400,
                         error |-> <<"No valid bills found">>]
            /\ IN_MEMORY_STORE' = IN_MEMORY_STORE
       ELSE /\ IN_MEMORY_STORE' = upsertInMemory(IN_MEMORY_STORE, valid)
            /\ reply' = [op |-> "import", status |-> 200,
                         added |-> CountNew(IN_MEMORY_STORE, valid),
                         updated |-> Len(valid) - CountNew(IN_MEMORY_STORE, valid),
                         total |-> Cardinality(DOMAIN upsertInMemory(IN_MEMORY_STORE,
                                                                     valid))]
    /\ UNCHANGED <<KHO_MEMORY_STORE, PROJECT_MEM>>

\* The handler of kho-list without Supabase and without filters: queryMemory
\* reads global.__KHO_MEMORY_STORE__ (the order by timestamp is left out).
NetlifyList ==
    /\ reply' = [op |-> "list", status |-> 200,
                 items |-> {KHO_MEMORY_STORE[k] : k \in DOMAIN KHO_MEMORY_STORE}]
    /\ UNCHANGED <<IN_MEMORY_STORE, KHO_MEMORY_STORE, PROJECT_MEM>>

\* The handler of sell.ts without Supabase: sellMemory moves the keys found in
\* MEM.KHO of global.__PROJECT_TRA_CUU_MEM__ to its MEM.HISTORY. MEM.MEMBERS
\* is never written, so the member is null and so is the entry's member_id.
NetlifySell(memberId, keys) ==
    /\ IF keys = <<>>
       THEN /\ reply' = [op |-> "sell", status |-> 400,
                         error |-> <<"Missing keys array">>]
            /\ PROJECT_MEM' = PROJECT_MEM
       ELSE LET st == SellAll([KHO |-> PROJECT_MEM.KHO,
                               HISTORY |-> PROJECT_MEM.HISTORY, sold |-> <<>>],
                              keys, Null)
            IN  /\ Len(st.HISTORY) <= MaxHistory
                /\ PROJECT_MEM' = [KHO |-> st.KHO, HISTORY |-> st.HISTORY]
                /\ reply' = [op |-> "sell", status |-> 200, ok |-> TRUE,
                             sold_count |-> Len(st.sold), history |-> st.sold]
    /\ UNCHANGED <<IN_MEMORY_STORE, KHO_MEMORY_STORE>>

\* The handler of history without Supabase and without filters:
\* queryMemoryHistory sorts a copy of MEM.HISTORY, newest sale first.
NetlifyHistory ==
    /\ reply' = [op |-> "history", status |-> 200,
                 rows |-> Reverse(PROJECT_MEM.HISTORY)]
    /\ UNCHANGED <<IN_MEMORY_STORE, KHO_MEMORY_STORE, PROJECT_MEM>>

\* the bills of import requests to kho-import.ts: with a key or without, the
\* amounts given or absent
NetlifyBills ==
    { ImportBill(key, <<"P">>, <<"A">>, Undefined, amount_current, total) :
        key \in RequestKeys \cup {<<>>},
        amount_current \in {Undefined, Str(<<"7", "d">>)},
        total \in {Undefined, Num(9)} }

InitNetlify ==
    /\ BatchIdle
    /\ serverFetch = ServerIdle
    /\ StoresEmpty

NextNetlify ==
    \/ \E bills \in ListsOf(NetlifyBills, MaxKeys) :
            NetlifyImport(bills)
            /\ UNCHANGED <<batchVars, LOCKS, lockCalls, serverFetch, MEM, kho, history, sales>>
    \/ NetlifyList /\ UNCHANGED <<batchVars, LOCKS, lockCalls, serverFetch, MEM, kho, history, sales>>
    \/ \E keys \in ListsOf(RequestKeys, MaxKeys) :
            NetlifySell(Buyer, keys)
            /\ UNCHANGED <<batchVars, LOCKS, lockCalls, serverFetch, MEM, kho, history, sales>>
    \/ NetlifyHistory /\ UNCHANGED <<batchVars, LOCKS, lockCalls, serverFetch, MEM, kho, history, sales>>

SpecNetlify == InitNetlify /\ [][NextNetlify]_vars

\* ------------------------------------- imports in memory, server and Netlify
\* The two import handlers without a database, each on its own store, and the
\* remove handler of the server.

\* the bills sent to kho-import.ts here: without a key, or with one of the
\* two keys, no amount given
KeyedImports ==
    { b \in NetlifyBills :
        /\ b.amount_current = Undefined
        /\ b.total = Undefined }

\* a bill whose key is an inherited name
InheritedBill == ImportBill(ToStringName, <<"P">>, <<"A">>, Undefined, Undefined, Undefined)

NextImport ==
    \/ \E bills \in ListsOf(ImportBills \cup {InheritedBill}, MaxKeys) :
            KhoImport(bills)
            /\ UNCHANGED <<batchVars, LOCKS, lockCalls, serverFetch, IN_MEMORY_STORE,
                           KHO_MEMORY_STORE, PROJECT_MEM, kho, history, sales>>
    \/ \E keys \in ListsOf(RequestKeys \cup InheritedNames, MaxKeys) :
            KhoRemove(keys)
            /\ UNCHANGED <<batchVars, LOCKS, lockCalls, serverFetch, IN_MEMORY_STORE,
                           KHO_MEMORY_STORE, PROJECT_MEM, kho, history, sales>>
    \/ \E bills \in ListsOf(KeyedImports \cup {InheritedBill}, MaxKeys) :
            NetlifyImport(bills)
            /\ UNCHANGED <<batchVars, LOCKS, lockCalls, serverFetch, MEM, kho, history,
                           sales>>

SpecImport == InitMemory /\ [][NextImport]_vars

\* ------------------------------------------------- server.js: remove in memory
\* Imports and sales fill the inventory and the history; removes name the two
\* keys and the inherited name.
NextRemove ==
    \/ \E bills \in ListsOf(ImportBills, MaxKeys) :
            KhoImport(bills)
            /\ UNCHANGED <<batchVars, LOCKS, lockCalls, serverFetch, IN_MEMORY_STORE,
                           KHO_MEMORY_STORE, PROJECT_MEM, kho, history, sales>>
    \/ \E keys \in ListsOf(RequestKeys \cup InheritedNames, MaxKeys) :
            KhoRemove(keys)
            /\ UNCHANGED <<batchVars, LOCKS, lockCalls, serverFetch, IN_MEMORY_STORE,
                           KHO_MEMORY_STORE, PROJECT_MEM, kho, history, sales>>
    \/ \E keys \in ListsOf(RequestKeys, MaxKeys) :
            KhoSell(Buyer, keys)
            /\ UNCHANGED <<batchVars, LOCKS, lockCalls, serverFetch, IN_MEMORY_STORE,
                           KHO_MEMORY_STORE, PROJECT_MEM, kho, history, sales>>

SpecRemove == InitMemory /\ [][NextRemove]_vars

\* ------------------------------------------------------------------ claims
Accounts == 1..Len(task)
MaxRetriesConfigured == env.NEW_API_MAX_RETRIES

\* the failure classes of the specification, read off an outcome
IsFatal4xx(o) == o.kind = "response" /\ o.status \in 400..499 /\ o.status # 429
IsRetryableFailure(o) ==
    \/ o.kind \in {"neterr", "abort"}
    \/ o.kind = "response" /\ (o.status = 429 \/ o.status \in 500..599)
IsJsonSuccess(o) ==
    o.kind = "response" /\ o.status \in 200..299 /\ JsonParse(OrElse(o.text, <<"{}">>)).ok

\* C1: an accepted list of N identifiers is answered with status 200 and exactly
\* N entries, entry i carrying the identifier at input position i (duplicates
\* kept), whatever the order in which the tasks settled, retried or failed.
C1_OrderPreserved ==
    /\ phase = "responded" /\ N > 0 => response.status = 200
    /\ response.status = 200 =>
          /\ Len(response.body) = N
          /\ \A i \in 1..N : response.body[i].account = contract_numbers[i]

\* C1 witness: a batch of two equal identifiers has been answered although the
\* second task settled before the first, one task slept and one task failed.
C1_Witness ==
    /\ response.status = 200
    /\ N = 2
    /\ contract_numbers[1] = contract_numbers[2]
    /\ overtaken
    /\ \E i \in Accounts : sleeps[i] > 0
    /\ \E i \in Accounts : ~response.body[i].ok

\* C2: the number of accounts whose task is in flight (in an upstream call or in
\* a backoff sleep) never exceeds the configured ceiling.
C2_ConcurrencyCeiling ==
    /\ Cardinality(InFlight(task)) >= 0
    /\ Cardinality(InFlight(task)) <= env.NEW_API_CONCURRENCY

\* C2 witness: more accounts than the ceiling, the ceiling is reached, one of
\* the tasks in flight sleeps and another account still waits.
C2_Witness ==
    /\ N > env.NEW_API_CONCURRENCY
    /\ Cardinality(InFlight(task)) = env.NEW_API_CONCURRENCY
    /\ \E i \in Accounts : task[i].pc = "sleep"
    /\ \E i \in Accounts : task[i].pc = "queued"

\* C3: a failure of an account is captured as that account's own entry (the
\* task promise never rejects, the entry is { ok: false } for that account and
\* depends on that account's outcome alone); the handler answers 200 with every
\* account's entry, and answers otherwise only when validation rejected the input.
C3_FailuresIsolated ==
    /\ \A i \in Done(task) :
          /\ ~settled[i].threw
          /\ settled[i].entry.account = contract_numbers[i]
          /\ fetched[i].threw /\ last[i].status # 400 => ~settled[i].entry.ok
          /\ settled[i] = TaskBody(env.handler, contract_numbers[i], sku,
                                   AttemptResult(env.handler, last[i]))
    /\ phase = "responded" /\ N > 0 =>
          /\ response.status = 200
          /\ \A i \in 1..N : response.body[i] = settled[i].entry
    /\ phase = "responded" /\ N = 0 => response.status = 400

\* C3 witness: a batch answered with one failed and one successful account.
C3_Witness ==
    /\ response.status = 200
    /\ N = 2
    /\ \E i, j \in 1..N :
          /\ ~response.body[i].ok /\ last[i] = TimerAbort
          /\ response.body[j].ok /\ last[j] = Response(200, TextBill)

\* C4: a fatal upstream error (HTTP 4xx other than 429) ends the retry loop at
\* once: the task has settled with that error, no sleep follows it, and when it
\* answered the first attempt exactly one request was issued and none slept.
C4_FatalNotRetried ==
    \A i \in Accounts :
        IsFatal4xx(last[i]) =>
            /\ task[i].pc = "done"
            /\ fetched[i].threw
            /\ fetched[i].err.status = last[i].status
            /\ calls[i] = sleeps[i] + 1
            /\ task[i].remaining = MaxRetriesConfigured => calls[i] = 1 /\ sleeps[i] = 0

\* C4 witness: retries were configured, the first attempt got a 404 and the
\* account has settled.
C4_Witness ==
    \E i \in Accounts :
        /\ MaxRetriesConfigured >= 2
        /\ last[i] = Response(404, <<>>)
        /\ task[i].pc = "done"
        /\ calls[i] = 1

\* C5 as stated: at most NEW_API_MAX_RETRIES requests per account, for a
\* NEW_API_MAX_RETRIES of at least 1.
C5_AtMostMaxRetriesRequests ==
    \A i \in Accounts : MaxRetriesConfigured >= 1 => calls[i] <= MaxRetriesConfigured

\* C5 amended: at most NEW_API_MAX_RETRIES + 1 requests per account, the first
\* attempt plus at most NEW_API_MAX_RETRIES retries.
C5_AtMostMaxRetriesPlusOne ==
    \A i \in Accounts :
        /\ calls[i] <= MaxRetriesConfigured + 1
        /\ sleeps[i] <= MaxRetriesConfigured
        /\ calls[i] <= sleeps[i] + 1

\* C5 witness: every permitted request of an account has been issued.
C5_Witness ==
    \E i \in Accounts :
        /\ MaxRetriesConfigured >= 2
        /\ calls[i] = MaxRetriesConfigured + 1
        /\ task[i].pc = "done"

\* C6: a success on the last permitted attempt is what fetchWithTimeoutAndRetry
\* returns; a retryable error is surfaced only by the last permitted attempt,
\* and it is the error of that attempt.
C6_LastAttemptDecides ==
    \A i \in Done(task) :
        /\ calls[i] = MaxRetriesConfigured + 1 /\ IsJsonSuccess(last[i]) =>
              /\ ~fetched[i].threw
              /\ fetched[i].value = JsonParse(OrElse(last[i].text, <<"{}">>)).value
        /\ fetched[i].threw /\ IsRetryableFailure(last[i]) =>
              /\ calls[i] = MaxRetriesConfigured + 1
              /\ sleeps[i] = MaxRetriesConfigured
              /\ fetched[i].err = AttemptResult(env.handler, last[i]).err
              /\ fetched[i].err.status = last[i].status

\* C6 witness: every attempt but the last failed and the last returned a payload.
C6_Witness ==
    \E i \in Done(task) :
        /\ MaxRetriesConfigured >= 2
        /\ sleeps[i] = MaxRetriesConfigured
        /\ calls[i] = MaxRetriesConfigured + 1
        /\ ~fetched[i].threw
        /\ fetched[i].value = PayBill

C7_RetryPendingOrExhausted ==
    \A i \in Accounts :
        IsRetryableFailure(last[i]) =>
            \/ /\ task[i].pc = "sleep"
               /\ task[i].remaining > 0
               /\ sleeps[i] = calls[i]
            \/ /\ task[i].pc = "done"
               /\ fetched[i].threw
               /\ calls[i] = MaxRetriesConfigured + 1

C7_SleepThenAttempt ==
    \A i \in Accounts :
        task[i].pc = "sleep" =>
            \/ task'[i] = task[i] /\ calls'[i] = calls[i]
            \/ task'[i].pc = "fetch" /\ calls'[i] = calls[i] + 1

\* C7: a network error, a timeout, an HTTP 5xx or an HTTP 429 is retried while
\* attempts remain: after it the task sleeps and the sleep ends in another
\* request of the same account; it is surfaced only once every permitted
\* attempt has been made.
C7_RetryableIsRetried ==
    [](C7_RetryPendingOrExhausted) /\ [][C7_SleepThenAttempt]_vars

\* C7 witness: an attempt timed out after an earlier retry and the task sleeps
\* before its next attempt.
C7_Witness ==
    \E i \in Accounts :
        /\ task[i].pc = "sleep"
        /\ last[i] = TimerAbort
        /\ sleeps[i] >= 2

\* the jitter of a wait whose backoff is min(700 * 2^exponent, 10000)
JitterOf(wait, exponent) == wait - Min(BackoffBase * Pow2(exponent), BackoffCap)

\* C8 as stated: the exponent is the number of attempts already made.
C8_BackoffByAttemptsMade ==
    \A i \in Accounts :
        task[i].pc = "sleep" => JitterOf(task[i].wait, calls[i]) \in 0..(JitterRange - 1)

\* C8 amended: the wait is min(700 * 2^r, 10000) ms plus a jitter in [0, 200),
\* r being the number of retries already made (attempts made minus one).
C8_BackoffByRetriesMade ==
    \A i \in Accounts :
        task[i].pc = "sleep" =>
            JitterOf(task[i].wait, calls[i] - 1) \in 0..(JitterRange - 1)

\* C8 witness: a wait at the cap with a positive jitter, after five attempts.
C8_Witness ==
    \E i \in Accounts :
        /\ task[i].pc = "sleep"
        /\ calls[i] = 5
        /\ task[i].wait = BackoffCap + JitterRange - 1

\* C9 as stated: the waits (backoff plus jitter) never decrease and no wait
\* exceeds the cap.
C9_WaitsMonotoneUnderCap ==
    \A i \in Accounts :
        task[i].pc = "sleep" =>
            /\ task[i].wait <= BackoffCap
            /\ task[i].prevWait <= task[i].wait

\* C9 amended: the backoff part of the waits never decreases and never exceeds
\* the cap; a wait (backoff plus jitter) stays below cap + 200 ms and does not
\* decrease as long as the previous backoff was below the cap.
C9_BackoffMonotoneUnderCap ==
    \A i \in Accounts :
        task[i].pc = "sleep" =>
            /\ task[i].backoff <= BackoffCap
            /\ task[i].prevBackoff <= task[i].backoff
            /\ task[i].wait - task[i].backoff \in 0..(JitterRange - 1)
            /\ task[i].wait < BackoffCap + JitterRange
            /\ task[i].prevBackoff < BackoffCap => task[i].prevWait <= task[i].wait

\* C9 witness: two successive waits at the cap, the second shorter than the first.
C9_Witness ==
    \E i \in Accounts :
        /\ task[i].pc = "sleep"
        /\ task[i].prevBackoff = BackoffCap
        /\ task[i].backoff = BackoffCap
        /\ task[i].prevWait > task[i].wait

\* C10: an account whose upstream call ended in HTTP 400 is reported
\* { ok: true } with a zero-amount bill keyed sku::account whose address is the
\* error preview.
C10_Status400Remapped ==
    \A i \in Done(task) :
        last[i].kind = "response" /\ last[i].status = 400 =>
            /\ settled[i].entry.ok
            /\ settled[i].entry.normalized.key = sku \o <<":", ":">> \o contract_numbers[i]
            /\ settled[i].entry.normalized.amount_current = <<"0">>
            /\ settled[i].entry.normalized.total = <<"0">>
            /\ settled[i].entry.normalized.amount_previous = <<"0">>
            /\ settled[i].entry.normalized.address = fetched[i].err.preview

\* C11: an account whose upstream call ended in a fatal error of a status other
\* than 400 (a 4xx other than 400 and 429, or a success status whose body is
\* not JSON) is reported { ok: false } with its own identifier, a non-empty
\* error message and upstreamStatus equal to the HTTP status of that response.
C11_FatalReported ==
    \A i \in Done(task) :
        /\ last[i].kind = "response"
        /\ last[i].status # 400
        /\ IsFatal4xx(last[i]) \/ (last[i].status \in 200..299 /\ ~IsJsonSuccess(last[i]))
        => /\ ~settled[i].threw
           /\ ~settled[i].entry.ok
           /\ settled[i].entry.account = contract_numbers[i]
           /\ settled[i].entry.error # <<>>
           /\ settled[i].entry.upstreamStatus = last[i].status

\* C11 witness: after a retry an account got a 200 whose body is not JSON and
\* is reported failed with upstreamStatus 200.
C11_Witness ==
    \E i \in Done(task) :
        /\ last[i] = Response(200, TextHtml)
        /\ sleeps[i] >= 1
        /\ ~settled[i].entry.ok
        /\ settled[i].entry.upstreamStatus = 200

\* the transport failures of the specification: a rejected fetch or a timeout
IsTransportFailure(o) == o.kind \in {"neterr", "abort"}

\* C12: an account whose attempts all ended in a transport error or a timeout
\* is reported { ok: false } with no upstreamStatus once every permitted
\* attempt was made, and the batch is still answered with every account's entry.
C12_TransportFailureReported ==
    /\ \A i \in Done(task) :
          IsTransportFailure(last[i]) =>
              /\ calls[i] = MaxRetriesConfigured + 1
              /\ ~settled[i].threw
              /\ ~settled[i].entry.ok
              /\ settled[i].entry.account = contract_numbers[i]
              /\ settled[i].entry.error # <<>>
              /\ settled[i].entry.upstreamStatus = NoStatus
    /\ phase = "responded" /\ N > 0 =>
          /\ response.status = 200
          /\ Len(response.body) = N
          /\ \A i \in 1..N :
                /\ response.body[i] = settled[i].entry
                /\ last[i] = Response(200, TextBill) => response.body[i].ok

\* C12 witness: a batch of two is answered; one account used every permitted
\* attempt, the last one a rejected fetch, and the other account got its bill.
C12_Witness ==
    /\ response.status = 200
    /\ N = 2
    /\ MaxRetriesConfigured >= 1
    /\ \E i, j \in 1..N :
          /\ last[i] = NetworkError /\ calls[i] = MaxRetriesConfigured + 1
          /\ ~response.body[i].ok
          /\ last[j] = Response(200, TextBill) /\ response.body[j].ok

\* a string that is empty once trimmed
IsBlank(s) == \A k \in 1..Len(s) : s[k] = " "

\* the identifier list of a body is empty once trimmed and cleared of blanks
ListIsBlank(b) ==
    \/ ~b.contract_numbers.isArray
    \/ \A k \in 1..Len(b.contract_numbers.items) : IsBlank(b.contract_numbers.items[k])

\* the provider code of a body: sku, or provider_id when there is no sku
ProviderCode(b) == IF b.sku # <<>> THEN b.sku ELSE b.provider_id

C13_NoUpstreamAfterRejection ==
    response.status = 400 => phase = "responded" /\ task = <<>> /\ calls = <<>>

C13_RejectStep ==
    phase = "received" /\ (ListIsBlank(body) \/ IsBlank(ProviderCode(body))) =>
        /\ phase' = "responded"
        /\ response'.status = 400
        /\ task' = <<>>
        /\ calls' = <<>>

\* C13: a request whose identifier list is empty after trimming and dropping
\* blanks, or whose provider code is empty after trimming, is answered with
\* status 400 by the handler's first step, and no task and no upstream request
\* exists for a request answered with 400.
C13_InvalidRejected ==
    [](C13_NoUpstreamAfterRejection) /\ [][C13_RejectStep]_vars

\* C13 witness: a request was rejected for its identifier list.
C13_Witness ==
    /\ phase = "responded"
    /\ response = BadRequest(<<"Thiếu contract_numbers (mảng)">>)
    /\ calls = <<>>

\* C14: whatever maximum batch size m is configured, a request whose
\* identifier list is larger than m is answered with a validation error and no
\* upstream request is issued for any of its accounts.
C14_OversizedRejected ==
    \A m \in 1..(MaxAccounts - 1) :
        N > m =>
            /\ response.status # 200
            /\ \A i \in Accounts : calls[i] = 0

\* C15: for every configured concurrency, zero and negative values included,
\* the ceiling the batch run uses is at least 1 and the batch is answered with
\* an entry for every account, each account having been requested upstream.
C15_CeilingAtLeastOne ==
    /\ phase # "received" /\ N > 0 => Concurrency >= 1
    /\ phase = "responded" /\ N > 0 =>
          /\ response.status = 200
          /\ Len(response.body) = N
          /\ \A i \in 1..N : task[i].pc = "done" /\ calls[i] >= 1

\* C16: with a ceiling of at least 1, attempts that end (in a response or the
\* abort of their timer) and a finite retry budget, an accepted batch is
\* eventually answered, every account's task having started and settled.
C16_BatchEventuallyReturns ==
    (phase = "running") ~>
        (/\ phase = "responded"
         /\ response.status = 200
         /\ \A i \in 1..N : task[i].pc = "done" /\ calls[i] >= 1)

\* C16 witness: a batch of more accounts than the ceiling has been answered
\* after one of its tasks slept and retried.
C16_Witness ==
    /\ phase = "responded"
    /\ N > env.NEW_API_CONCURRENCY
    /\ \A i \in 1..N : task[i].pc = "done"
    /\ \E i \in 1..N : sleeps[i] >= 1 /\ calls[i] = sleeps[i] + 1

\* C17: the handler has answered with its result list only when every
\* account's task has settled: no account of an answered batch still waits to
\* start, is in an upstream call or sleeps before a retry.
C17_RespondsAfterAllSettled ==
    phase = "responded" /\ response.status = 200 =>
        /\ Len(task) = N
        /\ \A i \in 1..N :
              /\ task[i].pc \notin {"queued", "fetch", "sleep"}
              /\ task[i].pc = "done"
              /\ settled[i] # Pending

\* C17 witness: a batch larger than the ceiling has been answered after one of
\* its accounts slept before a retry.
C17_Witness ==
    /\ phase = "responded"
    /\ response.status = 200
    /\ N > env.NEW_API_CONCURRENCY
    /\ \E i \in 1..N : sleeps[i] >= 1
    /\ \A i \in 1..N : task[i].pc = "done"

\* C18: a sleep or a pending upstream call suspends its own task alone: in no
\* state of a running batch does an account wait to start while a task is
\* suspended and fewer tasks than the ceiling are in flight.
C18_WaitingAccountStarted ==
    /\ phase = "running"
    /\ \E i \in Accounts : task[i].pc = "queued"
    /\ \E i \in Accounts : task[i].pc \in {"fetch", "sleep"}
    => Cardinality({i \in Accounts : task[i].pc \in {"fetch", "sleep"}})
          >= env.NEW_API_CONCURRENCY

\* a string that reads as a decimal number, as the specification's parse does
IsNumericString(str) ==
    LET u == Trim(str) IN
    \/ u = <<>>
    \/ AllDigits(u)
    \/ Len(u) >= 2 /\ Head(u) = "-" /\ AllDigits(Tail(u))

\* the amount of a line item: its first field that is neither absent nor null
FirstAmount(item) ==
    IF item.moneyAmount.t \notin {"undefined", "null"} THEN item.moneyAmount
    ELSE IF item.money_amount.t \notin {"undefined", "null"} THEN item.money_amount
    ELSE item.amount

\* the payload has a first line item that is an object
HasLineItem(payload) ==
    /\ "t" \notin DOMAIN payload
    /\ payload.success /\ payload.hasData /\ payload.data.success
    /\ payload.data.bills # <<>>
    /\ "t" \notin DOMAIN payload.data.bills[1]

\* C19: whatever JSON payload the upstream call returned (null, a primitive,
\* missing fields, a response_text that is not JSON, a bills list whose first
\* entry is null or a primitive), the account is reported { ok: true } with a
\* bill whose key, provider_id, account, name, address, amount_current, total
\* and amount_previous are set, and a line item whose amount is not a number
\* yields total "0".
C19_NormalizerTotal ==
    \A i \in Done(task) :
        ~fetched[i].threw =>
            /\ ~settled[i].threw
            /\ settled[i].entry.ok
            /\ LET bill == settled[i].entry.normalized IN
               /\ bill.key = sku \o <<":", ":">> \o contract_numbers[i]
               /\ bill.provider_id = sku
               /\ bill.account = contract_numbers[i]
               /\ bill.name # <<>>
               /\ bill.address # <<>>
               /\ bill.amount_current # <<>>
               /\ bill.total # <<>>
               /\ bill.amount_previous # <<>>
               /\ ~HasLineItem(fetched[i].value) => bill.total = <<"0">>
               /\ HasLineItem(fetched[i].value) =>
                     LET amount == FirstAmount(fetched[i].value.data.bills[1]) IN
                     \/ amount.t = "number"
                     \/ amount.t = "string" /\ IsNumericString(amount.s)
                     \/ bill.total = <<"0">>

\* C19 witness: the first entry of the bills list was null and the account is
\* reported with the bill of the normalizer's catch.
C19_Witness ==
    \E i \in Done(task) :
        /\ ~fetched[i].threw
        /\ fetched[i].value = PayBillsNull
        /\ settled[i].entry.ok
        /\ settled[i].entry.normalized.address = ParseErrorText
        /\ settled[i].entry.normalized.total = <<"0">>

\* C20: the total of the bill of every reported account is a non-negative
\* number, whatever payload the upstream call returned.
C20_TotalNonNegative ==
    \A i \in Done(task) :
        ~fetched[i].threw => Head(settled[i].entry.normalized.total) # "-"

\* C21: the key of a reported bill is the provider code, "::" and the account
\* identifier, and no other pair of a non-empty provider code and a non-empty
\* identifier forms the same key.
C21_KeyInjective ==
    \A i \in Done(task) :
        settled[i].entry.ok =>
            LET bill == settled[i].entry.normalized IN
            /\ bill.key = bill.provider_id \o <<":", ":">> \o bill.account
            /\ \A s \in KeySkus, a \in KeyIds :
                  <<s, a>> # <<bill.provider_id, bill.account>>
                      => s \o <<":", ":">> \o a # bill.key

\* the amount a line item carries, as the text of a decimal number
AmountText(item) == NumberToString(FirstAmount(item).n)

\* C22: a payload whose top-level and nested success flags are true and whose
\* bills list holds a line item with a numeric amount is reported { ok: true }
\* with amount_previous "0" and amount_current and total both the amount of
\* that line item, whatever other fields the payload carries.
C22_SuccessPathBill ==
    \A i \in Done(task) :
        (~fetched[i].threw /\ HasLineItem(fetched[i].value)
            /\ FirstAmount(fetched[i].value.data.bills[1]).t = "number") =>
            /\ ~settled[i].threw
            /\ settled[i].entry.ok
            /\ LET bill == settled[i].entry.normalized
                   item == fetched[i].value.data.bills[1]
               IN  /\ bill.amount_previous = <<"0">>
                   /\ bill.amount_current = AmountText(item)
                   /\ bill.total = AmountText(item)

\* a body that JSON.parse rejects: the empty text or a text that is not JSON
FailsJsonParsing(text) == text = <<>> \/ ~JsonParse(text).ok

\* C23: an attempt answered with a success status and a body that fails JSON
\* parsing (the empty body included) ends the retry loop at once and the
\* account is reported { ok: false }, never with a bill.
C23_NonJsonFatal ==
    \A i \in Accounts :
        (last[i].kind = "response" /\ ResponseOk(last[i].status)
            /\ FailsJsonParsing(last[i].text)) =>
            /\ task[i].pc = "done"
            /\ calls[i] = sleeps[i] + 1
            /\ settled[i] # Pending
            /\ ~settled[i].entry.ok

\* the payload is an object and not one of the success path
IsNoSuccessPayload(payload) ==
    /\ "t" \notin DOMAIN payload
    /\ ~(payload.success /\ payload.hasData /\ payload.data.success
            /\ payload.data.bills # <<>>)

\* the address the specification names for a payload of the no-success path
ExpectedReason(payload) ==
    LET inner == JsonParseInner(payload.data.response_text)
        fromParsed == IF payload.hasData /\ inner.ok
                      THEN OrElse(inner.value.errorMessage, inner.value.message)
                      ELSE <<>>
        fromText == IF payload.hasData THEN payload.data.response_text ELSE <<>>
        fromStatus == IF payload.hasData /\ payload.data.status_code # 0
                      THEN <<"Upstream status ">> \o NumberToString(payload.data.status_code)
                      ELSE <<>>
    IN  OrElse(fromParsed,
               OrElse(fromText, OrElse(payload.error, OrElse(fromStatus, NoDebtText))))

\* C30: for a payload of the no-success path the bill's address is the first
\* non-empty of: error.message or message of the parsed response_text, the
\* response_text itself, the top-level error, the text derived from
\* data.status_code, the fixed fallback; its name is the placeholder with the
\* account identifier and its three amounts are "0".
C30_ReasonOrder ==
    \A i \in Done(task) :
        (~fetched[i].threw /\ IsNoSuccessPayload(fetched[i].value)) =>
            /\ settled[i].entry.ok
            /\ LET bill == settled[i].entry.normalized IN
               /\ bill.address = ExpectedReason(fetched[i].value)
               /\ bill.name = <<"(", "M", "ã", " ">> \o contract_numbers[i] \o <<")">>
               /\ bill.amount_current = <<"0">>
               /\ bill.total = <<"0">>
               /\ bill.amount_previous = <<"0">>

\* C24: fetchWithTimeoutRetry of the Express server retries a network error,
\* a 5xx and a 429 while attempts remain, and does not retry a 4xx other than
\* 429: after such a response the call has ended with that error, no sleep
\* follows it, and when it answered the first attempt exactly one upstream
\* request was issued.
C24_ServerFatalNotRetried ==
    /\ (IsFatal4xx(serverFetch.last) =>
            /\ serverFetch.pc = "done"
            /\ serverFetch.result = "threw"
            /\ serverFetch.calls = serverFetch.sleeps + 1
            /\ serverFetch.sleeps = 0 => serverFetch.calls = 1)
    /\ (IsRetryableFailure(serverFetch.last) /\ serverFetch.pc = "done" =>
            serverFetch.calls = serverFetch.retries + 1)

\* the positions of list that hold an entry of the key
EntriesOf(list, key) == {i \in 1..Len(list) : list[i].key = key}

C26_HistoryAppendOnly ==
    [][/\ Len(MEM'.HISTORY) >= Len(MEM.HISTORY)
       /\ SubSeq(MEM'.HISTORY, 1, Len(MEM.HISTORY)) = MEM.HISTORY]_vars

\* C26 witness: a history request has been answered, newest entry first, with
\* two different entries that the ledger holds in the order of their sales.
C26_Witness ==
    /\ reply.op = "history"
    /\ Len(MEM.HISTORY) >= 2
    /\ MEM.HISTORY[1] # MEM.HISTORY[2]
    /\ reply.rows = Reverse(MEM.HISTORY)

\* the keys of the rows a sale inserted into history
SoldKeys(m) == {sales[m].inserted[p].key : p \in 1..Len(sales[m].inserted)}

\* C27: after sellSupabase returned success to a member, each key it sold is
\* absent from kho and history holds exactly one row of that key, also when
\* the sell requests of two members name the same key and interleave.
C27_SellAtomicPerKey ==
    \A m \in Members :
        (sales[m].pc = "done" /\ sales[m].response.status = 200) =>
            \A k \in SoldKeys(m) :
                /\ k \notin DOMAIN kho
                /\ Cardinality(EntriesOf(history, k)) = 1

\* C28: when the history rows of a sale were inserted and a delete from kho
\* failed, the handler has answered 500 with an error, not { ok: true }.
C28_PartialFailureReported ==
    \A m \in Members :
        (sales[m].pc = "done" /\ sales[m].inserted # <<>> /\ sales[m].deleteFailed) =>
            /\ sales[m].response.status = 500
            /\ sales[m].response.error # <<>>

\* C29: in memory mode the Netlify functions share one inventory: a bill that
\* kho-import accepted is in the store kho-list reads, is among the items a
\* list request is answered with, and is in the store sell sells from (or has
\* been sold from it into the history) under the same key.
C29_SharedInventory ==
    \A k \in DOMAIN IN_MEMORY_STORE :
        /\ k \in DOMAIN KHO_MEMORY_STORE
        /\ reply.op = "list" => \E item \in reply.items : item.key = k
        /\ \/ k \in DOMAIN PROJECT_MEM.KHO
           \/ EntriesOf(PROJECT_MEM.HISTORY, k) # {}

\* a value that parses as a number: a number, or a string of a decimal number
ParsesAsNumber(v) ==
    \/ v.t = "number"
    \/ v.t = "string" /\ Trim(v.s) # <<>> /\ IsNumericString(v.s)

\* the first of moneyAmount, money_amount, amount that parses, else 0
FirstParsingAmount(item) ==
    IF ParsesAsNumber(item.moneyAmount) THEN ToNumber(item.moneyAmount).n
    ELSE IF ParsesAsNumber(item.money_amount) THEN ToNumber(item.money_amount).n
    ELSE IF ParsesAsNumber(item.amount) THEN ToNumber(item.amount).n
    ELSE 0

\* C31: on the success path the amount of the reported bill is the value of
\* the first of the fields moneyAmount, money_amount, amount, in that order,
\* that parses as a number, and 0 if none of them parses.
C31_FirstParsingField ==
    \A i \in Done(task) :
        (~fetched[i].threw /\ HasLineItem(fetched[i].value)) =>
            /\ ~settled[i].threw
            /\ settled[i].entry.ok
            /\ settled[i].entry.normalized.total =
                   NumberToString(FirstParsingAmount(fetched[i].value.data.bills[1]))

\* C32: normalizeCheckBillResponse leaves the payload it is given unchanged:
\* the raw payload reported next to the bill, and the raw field of the bill,
\* equal the payload as the upstream call returned it.
C32_NormalizerPure ==
    \A i \in Done(task) :
        ~fetched[i].threw =>
            /\ settled[i].entry.raw = fetched[i].value
            /\ settled[i].entry.normalized.raw = fetched[i].value

\* C33: normalization is deterministic: two normalizations of equal payload,
\* account and provider code yield bills that are equal in every field. Here:
\* two consecutive single checks of the server whose upstream payloads were
\* equal answer with equal bills.
C33_Deterministic ==
    [][(/\ reply.op = "check" /\ reply.status = 200
        /\ reply'.op = "check" /\ reply'.status = 200
        /\ reply'.raw = reply.raw)
            => reply'.normalized = reply.normalized]_vars

\* C34: accounts start in the order of the input: whenever the first upstream
\* request of an account has been issued, the first request of every account
\* at a smaller input position has been issued too.
C34_FifoStart ==
    \A i \in 1..N, j \in 1..N :
        (i < j /\ calls[j] > 0) => calls[i] > 0

\* C34 witness: there are more accounts than slots, and an account that had to
\* wait for a slot has issued its first request while the batch is running.
C34_Witness ==
    /\ phase = "running"
    /\ \E j \in 1..N :
          /\ j > Concurrency
          /\ calls[j] > 0
          /\ task[j].pc = "fetch"

\* the attempt of account i that was in flight ends in this step with the
\* abort of its timer
AbortedNow(i) ==
    /\ task[i].pc = "fetch"
    /\ task'[i].pc # "fetch"
    /\ last'[i].kind = "abort"

\* C35: timeout cancellation is private to one attempt of one account. The
\* only timer pending for an account is the one of its attempt in flight, so
\* an expiry cannot reach a later attempt; a step in which the timer of an
\* attempt expires leaves the in-flight request of every sibling account as it
\* was; and once fetchWithTimeoutAndRetry has settled (or sleeps between two
\* attempts) no timer of the account is pending.
C35_TimeoutPrivate ==
    [][/\ \A i \in 1..N, j \in 1..N :
             (i # j /\ AbortedNow(i) /\ task[j].pc = "fetch") =>
                 /\ task'[j] = task[j]
                 /\ calls'[j] = calls[j]
                 /\ last'[j] = last[j]
       /\ \A i \in 1..N : AbortedNow(i) => task[i].timer = calls[i]
       /\ \A i \in 1..Len(task') :
             /\ task'[i].pc = "fetch" => task'[i].timer = calls'[i]
             /\ task'[i].pc # "fetch" => task'[i].timer = 0]_vars

\* C35 witness: the timer of an attempt of one account expired, that account
\* sleeps before its next attempt, and the request of a sibling account that
\* was in flight is still in flight.
C35_Witness ==
    \E i \in 1..N, j \in 1..N :
        /\ i # j
        /\ last[i].kind = "abort"
        /\ task[i].pc = "sleep"
        /\ task[j].pc = "fetch"
        /\ task[j].timer = calls[j]

\* the payload of account i is an object whose inner data.status_code is 400
InnerStatus400(i) ==
    /\ ~fetched[i].threw
    /\ "t" \notin DOMAIN fetched[i].value
    /\ fetched[i].value.hasData
    /\ fetched[i].value.data.status_code = 400

\* C36: in the edge bulk handler a parsed payload whose inner data.status_code
\* is 400 is reported { ok: true } with the zero-amount no-debt bill of the
\* handler's pre-check, the payload untouched by the normalizer, also when
\* both success flags are true and the bills list is not empty.
C36_PreCheck400 ==
    \A i \in Done(task) :
        (env.handler = "bulk" /\ InnerStatus400(i)) =>
            /\ ~settled[i].threw
            /\ settled[i].entry.ok
            /\ settled[i].entry.raw = fetched[i].value
            /\ LET bill == settled[i].entry.normalized IN
               /\ bill.key = sku \o <<":", ":">> \o contract_numbers[i]
               /\ bill.amount_current = <<"0">>
               /\ bill.total = <<"0">>
               /\ bill.amount_previous = <<"0">>
               /\ bill.month = <<>>
               /\ bill.raw = fetched[i].value
               /\ fetched[i].value.data.response_text # <<>>
                     => bill.address = fetched[i].value.data.response_text

\* C36 witness: the bulk handler reported an account whose payload had inner
\* status_code 400, both success flags true and a line item in its bills list.
C36_Witness ==
    \E i \in Done(task) :
        /\ env.handler = "bulk"
        /\ InnerStatus400(i)
        /\ HasLineItem(fetched[i].value)
        /\ settled[i].entry.ok
        /\ settled[i].entry.normalized.total = <<"0">>

\* the positions of the history that hold an entry of the inventory key
HistoryPositions(key) == {p \in 1..Len(MEM.HISTORY) : MEM.HISTORY[p].key = key}

\* the members whose call of withLock sold the inventory key
Sellers(key) == {m \in Members : lockCalls[m].sold /\ lockCalls[m].key = key}

Holders(key) == {m \in Members : lockCalls[m].pc = "running" /\ lockCalls[m].key = key}

\* the call of member m ends in this step with 'Lock timeout'
TimesOutNow(m) ==
    /\ lockCalls[m].pc = "wait"
    /\ lockCalls'[m].pc = "done"
    /\ lockCalls'[m].result = "timeout"

\* C38: withLock gives mutual exclusion per key and always releases: at most
\* one caller runs its function under a key, the lock entry exists exactly
\* while a caller's function runs under it (it is gone once the function has
\* returned or thrown), a waiting caller starts its function only when the
\* lock is free, and a caller that fails with 'Lock timeout' has not run its
\* function and leaves the holder's lock in place.
C38_LockExclusive ==
    [][/\ \A key \in RequestKeys :
             /\ Cardinality({m \in Members : lockCalls'[m].pc = "running"
                                              /\ lockCalls'[m].key = key}) <= 1
             /\ (LockKey(key) \in LOCKS') <=>
                   (\E m \in Members : lockCalls'[m].pc = "running"
                                        /\ lockCalls'[m].key = key)
       /\ \A m \in Members :
             /\ (lockCalls[m].pc # "running" /\ lockCalls'[m].pc = "running")
                   => LockKey(lockCalls'[m].key) \notin LOCKS
             /\ TimesOutNow(m) =>
                   /\ LOCKS' = LOCKS
                   /\ MEM' = MEM
                   /\ ~lockCalls'[m].sold]_vars

\* C38 witness: one caller's function runs under the lock of a key while
\* another caller of the same key has failed with 'Lock timeout'.
C38_Witness ==
    \E key \in RequestKeys, m \in Members, w \in Members :
        /\ m # w
        /\ m \in Holders(key)
        /\ LockKey(key) \in LOCKS
        /\ lockCalls[w].pc = "done"
        /\ lockCalls[w].result = "timeout"
        /\ lockCalls[w].key = key

\* the key the server stores a bill under: its key, or provider_id (UNK when
\* absent), "::" and account
StoredKey(b) ==
    IF b.key # <<>> THEN b.key
    ELSE (IF b.provider_id # <<>> THEN b.provider_id ELSE <<"UNK">>)
         \o <<":", ":">> \o b.account

\* the keys of the bills of a list
KeysOf(bills) == {StoredKey(bills[p]) : p \in 1..Len(bills)}

\* the bills of a list that carry a key of their own
Keyed(bills) == SelectSeq(bills, LAMBDA b : b.key # <<>>)

\* what an import that processed the bills must have done to the store and
\* reported: one record per key under its key, the records of other keys
\* untouched, added the keys that were new, added + updated the bills
\* processed, total the keys held
UpsertedByKey(before, after, bills, answer) ==
    /\ DOMAIN after = DOMAIN before \cup KeysOf(bills)
    /\ \A k \in DOMAIN after : after[k].key = k
    /\ \A k \in DOMAIN before \ KeysOf(bills) : after[k] = before[k]
    /\ answer.added = Cardinality(KeysOf(bills) \ DOMAIN before)
    /\ answer.added + answer.updated = Len(bills)
    /\ answer.total = Cardinality(DOMAIN after)

\* C39: import in memory is an upsert by key, in the server and in the Netlify
\* function: the inventory holds one record per key, a key already present is
\* updated and not added, added + updated is the number of bills processed (a
\* key listed twice in one request counts once as added, then as updated), and
\* the reported total is the number of keys in the inventory.
C39_ImportUpserts ==
    [][/\ \A bills \in ListsOf(ImportBills \cup {InheritedBill}, MaxKeys) :
             (bills # <<>> /\ KhoImport(bills)) =>
                 UpsertedByKey(MEM.KHO, MEM'.KHO, bills, reply')
       /\ \A bills \in ListsOf(KeyedImports \cup {InheritedBill}, MaxKeys) :
             (Keyed(bills) # <<>> /\ NetlifyImport(bills)) =>
                 UpsertedByKey(IN_MEMORY_STORE, IN_MEMORY_STORE', Keyed(bills), reply')]_vars

\* the keys a remove request lists
Listed(keys) == {keys[p] : p \in 1..Len(keys)}

\* C40: remove in memory deletes exactly the listed keys that are present,
\* leaves every other record of the inventory and the whole history as they
\* were, and reports as removed the number of distinct listed keys that were
\* present before the request.
C40_RemoveExact ==
    [][\A keys \in ListsOf(RequestKeys \cup InheritedNames, MaxKeys) :
          (keys # <<>> /\ KhoRemove(keys)) =>
              /\ DOMAIN MEM'.KHO = DOMAIN MEM.KHO \ Listed(keys)
              /\ \A k \in DOMAIN MEM'.KHO : MEM'.KHO[k] = MEM.KHO[k]
              /\ MEM'.HISTORY = MEM.HISTORY
              /\ reply'.removed = Cardinality(Listed(keys) \cap DOMAIN MEM.KHO)]_vars

====
